---- MODULE Spec2Model ----
(***************************************************************************)
(* External synchronization subsystem of the Airtable form builder:        *)
(* the webhook refresh cron job (utils/webhookCron.js), the webhook routes *)
(* (routes/webhooks.js: inbound notifications, register) and the token     *)
(* refresh route (POST /refresh).  Every `await` of the source is a point  *)
(* at which other handlers may run, so each handler is cut into one action *)
(* per awaited call; the code between two awaits is one atomic step.       *)
(***************************************************************************)
EXTENDS Integers, Sequences, FiniteSets, TLC

\* ------------------------------------------------------------------ bounds
MaxWebhooks == 2
MaxSweeps == 2
MaxNow == 9
MaxRegisters == 2
MaxHandlers == 2
MaxRecords == 2
MaxCursor == 2
MaxListed == 1
MaxRefreshes == 2
MaxExpiresIn == 2
MaxText == 2
MaxItems == 2
MaxConditions == 2
MaxQuestions == 2
MaxSubmits == 1
MaxCallbacks == 2
MaxRequests == 2
MaxUnregisters == 1
MaxBusy == 2
MaxLifeRequests == 2
MaxEdits == 2
MaxElapsed == 1
MaxStates == 1
MaxAccounts == 2

\* --------------------------------------------------------- program constants
\* 6 * 24 * 60 * 60 * 1000 ms, in the model's time unit (one day)
SixDays == 6
\* webhook.errorCount >= 3 deactivates
MaxErrors == 3

WIds == 1..MaxWebhooks
SweepIds == 1..MaxSweeps
StartNow == SixDays + 1

VARIABLES
    now,        \* Date.now(), in days
    webhooks,   \* the Webhook collection: airtableWebhookId -> document
    forms,      \* ids of the Form documents that exist
    users,      \* ids of the User documents that exist
    sweep,      \* the invocations of the cron callback
    lastTick,   \* the day of the schedule's last firing
    streak,     \* history: consecutive failed renewal attempts recorded per webhook
    reg,        \* the POST /register/:formId requests
    airtable,   \* the webhooks created in Airtable by createWebhook, a count
    unreg,      \* the DELETE /:webhookId requests
    notif,      \* the POST /airtable (inbound notification) requests
    responses,  \* the Response collection: airtableRecordId -> document
    creds,      \* the tokens of the User documents: user id -> tokens
    refresh,    \* the POST /refresh requests
    upstream,   \* the token exchanges sent to Airtable's token endpoint, a count
    oauth,      \* the GET /airtable/callback requests
    pkceStore,  \* pkceStore: the states that still hold a code verifier
    states,     \* the states generated by GET /airtable, a count
    issued,     \* history: access token -> the expiry computed from its exchange
    probe,      \* a call of the conditional-logic functions: arguments and result
    submit,     \* the POST /:formId/submit requests
    formDocs,   \* the Form collection: form id -> document
    edit,       \* the POST / (create), PUT and DELETE /:formId requests
    created     \* the records created in Airtable by createRecord, a count

cronVars == <<sweep, lastTick, streak>>
regVars == <<reg, airtable, unreg>>
hookVars == <<notif, responses>>
oauthVars == <<oauth, pkceStore, states>>
authVars == <<creds, refresh, upstream, issued, oauthVars>>
formVars == <<probe, submit, formDocs, edit, created>>
vars == <<now, webhooks, forms, users, cronVars, regVars, hookVars, authVars, formVars>>

NoError == <<>>
NoDate == -1
\* lastError = {message, timestamp}; the message text is not modelled and the
\* timestamp is kept only as "set"
ErrorAt(t) == <<"error">>
OwnerId == 1

\* webhookSchema: the fields the sweep, register and the notification handler use
WebhookDoc(formId, lastPingAt, isActive, errorCount) ==
    [formId |-> formId, airtableTableId |-> formId, cursor |-> 1,
     isActive |-> isActive, lastPingAt |-> lastPingAt, lastNotificationAt |-> NoDate,
     errorCount |-> errorCount, lastError |-> NoError]

\* mutant of needsRefresh: $lte in place of $lt
needsRefresh_Inclusive(doc, t) == doc.lastPingAt <= t - SixDays

\* webhookSchema.methods.needsRefresh / the sweep's query on lastPingAt
needsRefresh(doc, t) == doc.lastPingAt < t - SixDays

\* mutant of SweepSelects: the query forgets isActive: true
SweepSelects_AnyState(doc, t) == needsRefresh(doc, t)

\* Webhook.find({isActive: true, lastPingAt: {$lt: sixDaysAgo}})
SweepSelects(doc, t) == doc.isActive /\ needsRefresh(doc, t)

RECURSIVE SeqOfSet(_)
SeqOfSet(S) ==
    IF S = {} THEN <<>>
    ELSE LET m == CHOOSE x \in S : \A y \in S : x <= y
         IN <<m>> \o SeqOfSet(S \ {m})

\* the documents the query returns, in collection order
FindStale(t) == SeqOfSet({w \in DOMAIN webhooks : SweepSelects(webhooks[w], t)})

\* a document as loaded by find().populate('formId'): its fields, the populated
\* form (null when the form is gone) and mongoose's set of modified paths
Loaded(w) ==
    [isActive |-> webhooks[w].isActive, lastPingAt |-> webhooks[w].lastPingAt,
     errorCount |-> webhooks[w].errorCount, lastError |-> webhooks[w].lastError,
     form |-> webhooks[w].formId \in forms, dirty |-> {}]

\* doc[path] = v : mongoose marks the path modified when the value changes
SetPath(doc, path, v) ==
    IF doc[path] = v THEN doc
    ELSE [doc EXCEPT ![path] = v, !.dirty = @ \cup {path}]

\* doc[path] = v where v holds a fresh Date: always a new value
ForcePath(doc, path, v) == [doc EXCEPT ![path] = v, !.dirty = @ \cup {path}]

\* webhook.save(): $set of the modified paths on the stored document
Persist(stored, doc) ==
    [f \in DOMAIN stored |-> IF f \in doc.dirty THEN doc[f] ELSE stored[f]]

Range(q) == {q[k] : k \in DOMAIN q}

IdleSweep == [pc |-> "idle", queue |-> <<>>, i |-> 0, docs |-> <<>>, user |-> <<>>,
              renewed |-> FALSE, outcome |-> "none"]

\* the callback has returned: its documents are garbage
Returned(sw, outcome) ==
    [sw EXCEPT !.pc = "done", !.docs = <<>>, !.user = <<>>, !.renewed = FALSE,
               !.outcome = outcome]

Running(s) == sweep[s].pc \notin {"idle", "done"}
Cur(s) == sweep[s].queue[sweep[s].i]
CurDoc(s) == sweep[s].docs[Cur(s)]

\* the parts of the state a specification does not exercise
RegIdle == reg = <<>> /\ airtable = 0 /\ unreg = <<>>
HookIdle == notif = <<>> /\ responses = <<>>
OAuthIdle == oauth = <<>> /\ pkceStore = {} /\ states = 0
AuthIdle == creds = <<>> /\ refresh = <<>> /\ upstream = 0 /\ issued = <<>> /\ OAuthIdle
FormIdle ==
    probe = <<>> /\ submit = <<>> /\ formDocs = <<>> /\ edit = <<>> /\ created = 0

\* The sweep starts from webhooks registered 7, 6 or 1 days ago, each either
\* active with no error or already deactivated by three errors.
InitSweep ==
    /\ now = StartNow
    /\ forms \in SUBSET WIds
    /\ users \in SUBSET {OwnerId}
    /\ webhooks \in [WIds -> {WebhookDoc(f, StartNow - d, a, IF a THEN 0 ELSE MaxErrors) :
                                f \in WIds, d \in {7, 6, 1}, a \in BOOLEAN}]
    /\ \A w \in WIds : webhooks[w].formId = w
    /\ sweep = [s \in SweepIds |-> IdleSweep]
    /\ lastTick = StartNow - 1
    /\ streak = [w \in WIds |-> webhooks[w].errorCount]
    /\ RegIdle /\ HookIdle /\ AuthIdle /\ FormIdle

\* ------------------------------------------------- utils/webhookCron.js
\* time passes; the schedule '0 2 * * *' matches once a day
Tick ==
    /\ now < MaxNow
    /\ now' = now + 1
    /\ UNCHANGED <<webhooks, forms, users, cronVars, regVars, hookVars, authVars, formVars>>

\* lines 40-41: webhook.lastPingAt = new Date(); webhook.errorCount = 0
RenewedUpdate(doc, t) ==
    SetPath(ForcePath(doc, "lastPingAt", t), "errorCount", 0)

\* lines 48-57: errorCount += 1, lastError, deactivate at the third error
CatchUpdate(doc, t) ==
    LET d1 == SetPath(doc, "errorCount", doc.errorCount + 1)
        d2 == ForcePath(d1, "lastError", ErrorAt(t))
    IN  IF d2.errorCount >= MaxErrors THEN SetPath(d2, "isActive", FALSE) ELSE d2

\* the user as loaded by User.findById: the tokens of the document, where the
\* specification holds them
LoadedUser(u) == IF u \in DOMAIN creds THEN creds[u] ELSE <<>>

\* the for loop moves to the next selected webhook, or the callback returns
Advance(sw) ==
    IF sw.i < Len(sw.queue)
    THEN [sw EXCEPT !.pc = "loop", !.i = @ + 1, !.user = <<>>, !.renewed = FALSE]
    ELSE Returned(sw, "completed")

\* lines 7-18: the schedule fires and the callback runs its query.  Nothing
\* in the callback looks at an invocation that is still in flight.
CronFire(s) ==
    /\ ~Running(s)
    /\ \A r \in SweepIds : r < s => Running(r)
    /\ lastTick < now
    /\ lastTick' = now
    /\ \/ LET q == FindStale(now)
              sw == [pc |-> "loop", queue |-> q, i |-> 0,
                     docs |-> [w \in Range(q) |-> Loaded(w)], user |-> <<>>,
                     renewed |-> FALSE, outcome |-> "none"]
          IN sweep' = [sweep EXCEPT ![s] = Advance(sw)]
       \/ \* the query rejects: the outer catch logs and the callback returns
          sweep' = [sweep EXCEPT ![s] = Returned(IdleSweep, "findFailed")]
    /\ UNCHANGED <<now, webhooks, forms, users, streak, regVars, hookVars, authVars, formVars>>

\* lines 22-32: the populated form, then await User.findById(form.ownerId)
SweepLoadOwner(s) ==
    /\ sweep[s].pc = "loop"
    /\ LET w == Cur(s)
           sw == sweep[s]
       IN \/ /\ ~CurDoc(s).form                     \* line 23: continue
             /\ sweep' = [sweep EXCEPT ![s] = Advance(sw)]
          \/ /\ CurDoc(s).form
             /\ OwnerId \notin users                 \* line 29: continue
             /\ sweep' = [sweep EXCEPT ![s] = Advance(sw)]
          \/ /\ CurDoc(s).form
             /\ OwnerId \in users
             /\ sweep' = [sweep EXCEPT ![s] =
                    [sw EXCEPT !.pc = "renew", !.user = LoadedUser(OwnerId)]]
          \/ /\ CurDoc(s).form                      \* findById rejects
             /\ sweep' = [sweep EXCEPT ![s] =
                    [sw EXCEPT !.pc = "saveErr",
                               !.docs[w] = CatchUpdate(@, now)]]
    /\ UNCHANGED <<now, webhooks, forms, users, lastTick, streak, regVars, hookVars, authVars, formVars>>

\* lines 34-41: await refreshWebhook(...), resolved or rejected upstream
SweepRenew(s) ==
    /\ sweep[s].pc = "renew"
    /\ LET w == Cur(s)
           sw == sweep[s]
       IN \/ sweep' = [sweep EXCEPT ![s] =
                    [sw EXCEPT !.pc = "save", !.renewed = TRUE,
                               !.docs[w] = RenewedUpdate(@, now)]]
          \/ sweep' = [sweep EXCEPT ![s] =
                    [sw EXCEPT !.pc = "saveErr",
                               !.docs[w] = CatchUpdate(@, now)]]
    /\ UNCHANGED <<now, webhooks, forms, users, lastTick, streak, regVars, hookVars, authVars, formVars>>

\* line 42: await webhook.save() after a renewal
SweepSave(s) ==
    /\ sweep[s].pc = "save"
    /\ LET w == Cur(s)
       IN \/ /\ webhooks' = [webhooks EXCEPT ![w] = Persist(@, CurDoc(s))]
             /\ sweep' = [sweep EXCEPT ![s] =
                    Advance([sweep[s] EXCEPT !.docs[w].dirty = {}])]
             /\ streak' = [streak EXCEPT ![w] = 0]
          \/ \* save rejects: the same catch block runs on the updated document
             /\ sweep' = [sweep EXCEPT ![s] =
                    [@ EXCEPT !.pc = "saveErr",
                              !.docs[w] = CatchUpdate(@, now)]]
             /\ UNCHANGED <<webhooks, streak>>
    /\ UNCHANGED <<now, forms, users, lastTick, regVars, hookVars, authVars, formVars>>

\* line 59: await webhook.save() inside the catch block
SweepSaveError(s) ==
    /\ sweep[s].pc = "saveErr"
    /\ LET w == Cur(s)
       IN \/ /\ webhooks' = [webhooks EXCEPT ![w] = Persist(@, CurDoc(s))]
             /\ sweep' = [sweep EXCEPT ![s] =
                    Advance([sweep[s] EXCEPT !.docs[w].dirty = {}])]
             /\ streak' = [streak EXCEPT ![w] = IF sweep[s].renewed THEN 0
                                                ELSE IF @ <= MaxErrors THEN @ + 1 ELSE @]
          \/ \* save rejects inside the catch: the for loop is left, line 64 logs
             /\ sweep' = [sweep EXCEPT ![s] = Returned(@, "aborted")]
             /\ UNCHANGED <<webhooks, streak>>
    /\ UNCHANGED <<now, forms, users, lastTick, regVars, hookVars, authVars, formVars>>

setupWebhookCron ==
    \/ Tick
    \/ \E s \in SweepIds : CronFire(s)
    \/ \E s \in SweepIds : SweepLoadOwner(s)
    \/ \E s \in SweepIds : SweepRenew(s)
    \/ \E s \in SweepIds : SweepSave(s)
    \/ \E s \in SweepIds : SweepSaveError(s)

SpecSweep == InitSweep /\ [][setupWebhookCron]_vars

\* ------------------------------------------------------------ the sweep's claims

\* C1: the stored errorCount is the number of consecutive failed renewals
\* recorded since the last successful renewal (a successful renewal resets it
\* to 0), and a subscription is inactive exactly when that number has reached 3.
C1_ThreeStrikes ==
    \A w \in DOMAIN webhooks :
        /\ webhooks[w].errorCount = streak[w]
        /\ webhooks[w].isActive <=> streak[w] < 3

\* C7: when the callback has returned after running its query, every selected
\* subscription has been handled: no failure on one of them ends the loop early.
C7_SweepContinues ==
    \A s \in SweepIds :
        (sweep[s].pc = "done" /\ sweep[s].outcome # "findFailed")
            => sweep[s].i = Len(sweep[s].queue)

\* C9: at most one invocation of the cron callback is in flight at any time.
C9_NoOverlap == Cardinality({s \in SweepIds : Running(s)}) <= 1

\* C10: the step in which a sweep runs its query at time now selects exactly the
\* subscriptions that are active and whose lastPingAt is strictly earlier than
\* now - 6 days: one pinged 7 days ago is selected, one pinged 1 day ago is
\* not, and an inactive one never is.
C10_SweepSelection ==
    [][\A s \in SweepIds :
          (lastTick' # lastTick /\ sweep'[s] # sweep[s]
                /\ sweep'[s].outcome # "findFailed")
          => LET chosen == Range(sweep'[s].queue)
             IN /\ chosen = {w \in DOMAIN webhooks :
                                webhooks[w].isActive /\ webhooks[w].lastPingAt < now - 6}
                /\ \A w \in DOMAIN webhooks :
                      /\ (webhooks[w].isActive /\ webhooks[w].lastPingAt = now - 7)
                            => w \in chosen
                      /\ webhooks[w].lastPingAt = now - 1 => w \notin chosen
                      /\ ~webhooks[w].isActive => w \notin chosen]_vars

\* a sweep has just selected a subscription pinged 7 days ago and left out one
\* pinged 1 day ago and an inactive one pinged 7 days ago
C10_Witness ==
    \E s \in SweepIds : \E w1, w2 \in DOMAIN webhooks :
        /\ sweep[s].pc = "loop" /\ sweep[s].i = 1 /\ lastTick = now
        /\ \A r \in SweepIds \ {s} : sweep[r].pc = "idle"
        /\ w1 \in Range(sweep[s].queue) /\ webhooks[w1].lastPingAt = now - 7
        /\ w2 \notin Range(sweep[s].queue)
        /\ \/ webhooks[w2].isActive /\ webhooks[w2].lastPingAt = now - 1
           \/ ~webhooks[w2].isActive /\ webhooks[w2].lastPingAt = now - 7

\* ------------------------------------- routes/webhooks.js: POST /register/:formId
RegIds == 1..MaxRegisters
OtherUser == 2
NoWebhook == 0

\* mutant of FindActiveWebhook: the query forgets isActive: true
FindActiveWebhook_AnyState(formId) ==
    {w \in DOMAIN webhooks : webhooks[w].formId = formId /\ ~webhooks[w].isActive}

\* lines 172-175: Webhook.findOne({formId: form._id, isActive: true})
FindActiveWebhook(formId) ==
    {w \in DOMAIN webhooks : webhooks[w].formId = formId /\ webhooks[w].isActive}

IdleRegister == [pc |-> "idle", formId |-> 0, userId |-> 0, created |-> NoWebhook,
                 status |-> 0, data |-> NoWebhook]

\* res.json / next(error): the request is answered
Respond(rq, status, data) ==
    [rq EXCEPT !.pc = "done", !.status = status, !.data = data]

\* Register starts from forms that exist, owned by OwnerId, with no webhook yet
InitRegister ==
    /\ now = StartNow
    /\ forms = WIds
    /\ users \in SUBSET {OwnerId}
    /\ webhooks = <<>>
    /\ sweep = [s \in SweepIds |-> IdleSweep]
    /\ lastTick = StartNow
    /\ streak = <<>>
    /\ reg = [r \in RegIds |-> IdleRegister]
    /\ airtable = 0
    /\ unreg = <<>>
    /\ HookIdle /\ AuthIdle /\ FormIdle

\* lines 160-169: await Form.findById, then the ownership check
RegisterFindForm(r) ==
    /\ reg[r].pc = "idle"
    /\ \A k \in RegIds : k < r => reg[k].pc # "idle"
    /\ \E f \in WIds \cup {0}, u \in {OwnerId, OtherUser} :
          LET rq == [reg[r] EXCEPT !.formId = f, !.userId = u]
          IN reg' = [reg EXCEPT ![r] =
                IF f \notin forms THEN Respond(rq, 404, NoWebhook)
                ELSE IF u # OwnerId THEN Respond(rq, 403, NoWebhook)
                ELSE [rq EXCEPT !.pc = "findWebhook"]]
    /\ UNCHANGED <<now, webhooks, forms, users, airtable, unreg, cronVars, hookVars, authVars, formVars>>

\* lines 171-183: await Webhook.findOne; an active webhook is returned as it is
RegisterFindWebhook(r) ==
    /\ reg[r].pc = "findWebhook"
    /\ LET found == FindActiveWebhook(reg[r].formId)
       IN \/ /\ found # {}
             /\ \E w \in found :
                   /\ \A v \in found : w <= v
                   /\ reg' = [reg EXCEPT ![r] = Respond(@, 200, w)]
          \/ /\ found = {}
             /\ reg' = [reg EXCEPT ![r].pc = "findUser"]
          \/ reg' = [reg EXCEPT ![r] = Respond(@, 500, NoWebhook)]  \* findOne rejects
    /\ UNCHANGED <<now, webhooks, forms, users, airtable, unreg, cronVars, hookVars, authVars, formVars>>

\* lines 185-189: await User.findById(form.ownerId)
RegisterFindUser(r) ==
    /\ reg[r].pc = "findUser"
    /\ reg' = [reg EXCEPT ![r] =
          IF OwnerId \in users THEN [@ EXCEPT !.pc = "create"]
          ELSE Respond(@, 500, NoWebhook)]
    /\ UNCHANGED <<now, webhooks, forms, users, airtable, unreg, cronVars, hookVars, authVars, formVars>>

\* lines 205-211: await createWebhook(...): Airtable creates a webhook with a
\* fresh id, or the call rejects
RegisterCreate(r) ==
    /\ reg[r].pc = "create"
    /\ \/ /\ airtable' = airtable + 1
          /\ reg' = [reg EXCEPT ![r] = [@ EXCEPT !.pc = "save", !.created = airtable + 1]]
       \/ /\ reg' = [reg EXCEPT ![r] = Respond(@, 500, NoWebhook)]
          /\ UNCHANGED airtable
    /\ UNCHANGED <<now, webhooks, forms, users, unreg, cronVars, hookVars, authVars, formVars>>

\* lines 213-229: new Webhook({...}) with the schema defaults, await webhook.save()
RegisterSave(r) ==
    /\ reg[r].pc = "save"
    /\ \/ /\ webhooks' = webhooks @@
                (reg[r].created :> WebhookDoc(reg[r].formId, now, TRUE, 0))
          /\ reg' = [reg EXCEPT ![r] = Respond(@, 201, reg[r].created)]
       \/ /\ reg' = [reg EXCEPT ![r] = Respond(@, 500, NoWebhook)]
          /\ UNCHANGED webhooks
    /\ UNCHANGED <<now, forms, users, airtable, unreg, cronVars, hookVars, authVars, formVars>>

Register ==
    \/ \E r \in RegIds : RegisterFindForm(r)
    \/ \E r \in RegIds : RegisterFindWebhook(r)
    \/ \E r \in RegIds : RegisterFindUser(r)
    \/ \E r \in RegIds : RegisterCreate(r)
    \/ \E r \in RegIds : RegisterSave(r)

SpecRegister == InitRegister /\ [][Register]_vars

\* C2: at most one active Subscription exists per form.
C2_OneActivePerForm ==
    \A f \in WIds : Cardinality(FindActiveWebhook(f)) <= 1

\* C3: the step in which register finds an active subscription for its form
\* answers 200 with that subscription, creates and modifies no Subscription and
\* calls createWebhook neither then nor later (an answered request takes no
\* further step).
C3_RegisterShortCircuit ==
    [][\A r \in RegIds :
          /\ (reg[r].pc = "findWebhook" /\ reg'[r].pc = "done" /\ reg'[r].status # 500)
               => /\ reg'[r].status = 200
                  /\ reg'[r].data \in DOMAIN webhooks
                  /\ webhooks[reg'[r].data].isActive
                  /\ webhooks[reg'[r].data].formId = reg[r].formId
                  /\ reg'[r].created = NoWebhook
                  /\ webhooks' = webhooks
                  /\ airtable' = airtable
          /\ (reg[r].pc = "findWebhook"
                /\ \E w \in DOMAIN webhooks :
                       webhooks[w].isActive /\ webhooks[w].formId = reg[r].formId)
               => reg'[r].pc \in {"findWebhook", "done"}
          /\ reg[r].pc = "done" => reg'[r] = reg[r]]_vars

\* a register request has been answered with the subscription another request
\* had created for the same form
C3_Witness ==
    \E r \in RegIds :
        /\ reg[r].pc = "done" /\ reg[r].status = 200
        /\ reg[r].created = NoWebhook
        /\ reg[r].data \in DOMAIN webhooks
        /\ \E k \in RegIds \ {r} : reg[k].status = 201 /\ reg[k].created = reg[r].data

\* ----------------------------------------- routes/webhooks.js: POST /airtable
HandlerIds == 1..MaxHandlers
RecIds == 1..MaxRecords
HookId == 1
UnknownHook == 0
NoHook == -1
NoCursor == 0
OwnTable == 1
OtherTable == 2

\* responseSchema: record k was submitted through form k; form 1 is the form
\* of the webhook HookId
ResponseDoc(formId) ==
    [formId |-> formId, answers |-> "answers", deletedInAirtable |-> FALSE,
     lastSyncedAt |-> 0]

RECURSIVE SeqsUpTo(_, _)
SeqsUpTo(S, n) ==
    IF n = 0 THEN {<<>>}
    ELSE LET shorter == SeqsUpTo(S, n - 1)
         IN shorter \cup {Append(q, x) : q \in shorter, x \in S}

\* changedTablesById[tableId]: the changed records (with or without a
\* materialized current value), the destroyed record ids and the created records
TableChanges ==
    [changed : SeqsUpTo([rec : RecIds, current : BOOLEAN], MaxListed),
     destroyed : SeqsUpTo(RecIds, MaxListed),
     created : {0, 1}]

\* The request body is {base, webhook: {id}, timestamp, cursor?,
\* changedTablesById?}, no notification at all, or missing.  The body does not
\* change while the request is handled, so each part of it is drawn in the
\* step that first reads it.
Shapes == {"none", "other", "notification"}
Hooks == {HookId, UnknownHook}
Cursors == {NoCursor} \cup (1..MaxCursor)
NoTable == 0
Tables == {NoTable, OwnTable, OtherTable}

IdleHandler == [pc |-> "idle", hook |-> NoHook, doc |-> <<>>, items |-> <<>>,
                i |-> 0, resp |-> <<>>, status |-> 0, logged |-> FALSE,
                replayed |-> FALSE, afterDelete |-> FALSE]

\* mutant of Acknowledge: a notification is answered 404
Acknowledge_NotFound(h) ==
    [h EXCEPT !.pc = "done", !.doc = <<>>, !.items = <<>>,
              !.i = 0, !.resp = <<>>, !.status = 404]

\* lines 50, 68, 71: res.status(200).json({success: true})
Acknowledge(h) ==
    [h EXCEPT !.pc = "done", !.doc = <<>>, !.items = <<>>,
              !.i = 0, !.resp = <<>>, !.status = 200]

\* mutant of NotifyCatch: the catch block reports the failure to Airtable
NotifyCatch_Surface(h) == [Acknowledge(h) EXCEPT !.status = 500, !.logged = TRUE]

\* lines 73-77: the catch block of the route logs and also answers 200
NotifyCatch(h) == [Acknowledge(h) EXCEPT !.logged = TRUE]

\* mutant of RecordCatch: the failure of one record ends the loops
RecordCatch_Abort(h) == [h EXCEPT !.logged = TRUE, !.i = Len(h.items)]

\* lines 109-111, 132-134: the catch block around one record logs
RecordCatch(h) == [h EXCEPT !.logged = TRUE]

\* lines 91 and 117: the records the two loops of processWebhookChanges visit,
\* changed records first, destroyed records after them
WorkItems(changes) ==
    [k \in 1..Len(changes.changed) |->
        [op |-> "changed", rec |-> changes.changed[k].rec,
         current |-> changes.changed[k].current]]
    \o [k \in 1..Len(changes.destroyed) |->
        [op |-> "destroyed", rec |-> changes.destroyed[k], current |-> FALSE]]

\* processWebhookChanges moves to the next record, or returns and line 68 answers
NextItem(h) ==
    IF h.i < Len(h.items)
    THEN [h EXCEPT !.pc = "findResponse", !.i = @ + 1, !.resp = <<>>]
    ELSE Acknowledge(h)

\* mutant of MarkDeleted: the flag is flipped instead of set
MarkDeleted_Toggle(resp, t) ==
    ForcePath(SetPath(resp, "deletedInAirtable", ~resp.deletedInAirtable),
              "lastSyncedAt", t)

\* lines 126-127: response.deletedInAirtable = true; response.lastSyncedAt = new Date()
MarkDeleted(resp, t) ==
    ForcePath(SetPath(resp, "deletedInAirtable", TRUE), "lastSyncedAt", t)

\* mutant of MarkSynced: a changed record is taken to exist again
MarkSynced_Undelete(resp, t) ==
    ForcePath(SetPath(resp, "deletedInAirtable", FALSE), "lastSyncedAt", t)

\* mutant of MarkSynced: the answers are rewritten from the notification
MarkSynced_Rewrite(resp, t) ==
    ForcePath(SetPath(resp, "answers", "cells"), "lastSyncedAt", t)

\* line 103: response.lastSyncedAt = new Date()
MarkSynced(resp, t) == ForcePath(resp, "lastSyncedAt", t)

\* Notifications arrive for one registered webhook; there is one stored
\* response per form
InitNotify ==
    /\ now = StartNow
    /\ forms = WIds
    /\ users = {OwnerId}
    /\ webhooks = (HookId :> WebhookDoc(1, StartNow, TRUE, 0))
    /\ sweep = [s \in SweepIds |-> IdleSweep]
    /\ lastTick = StartNow
    /\ streak = <<>>
    /\ notif = [h \in HandlerIds |-> IdleHandler]
    /\ responses = [k \in RecIds |-> ResponseDoc(k)]
    /\ RegIdle /\ AuthIdle /\ FormIdle

\* lines 34-41: the body is read; a body without base and webhook is only
\* acknowledged, and reading a missing body throws into the catch block
NotifyReceive(h) ==
    /\ notif[h].pc = "idle"
    /\ \A k \in HandlerIds : k < h => notif[k].pc # "idle"
    /\ \E shape \in Shapes, hook \in Hooks :
          notif' = [notif EXCEPT ![h] =
              IF shape = "none" THEN NotifyCatch(@)
              ELSE IF shape = "other" THEN Acknowledge(@)
              ELSE [@ EXCEPT !.pc = "findWebhook", !.hook = hook]]
    /\ UNCHANGED <<now, webhooks, forms, users, responses, cronVars, regVars, authVars, formVars>>

\* lines 44-59: await Webhook.findOne({airtableWebhookId}), then
\* lastNotificationAt and the cursor are set on the document
NotifyFindWebhook(h) ==
    /\ notif[h].pc = "findWebhook"
    /\ LET hook == notif[h].hook
       IN \/ /\ hook \notin DOMAIN webhooks
             /\ notif' = [notif EXCEPT ![h] = Acknowledge(@)]
          \/ /\ hook \in DOMAIN webhooks
             /\ \E timestamp \in StartNow..now, cursor \in Cursors :
                  LET d0 == webhooks[hook] @@ [dirty |-> {}]
                      d1 == SetPath(d0, "lastNotificationAt", timestamp)
                      d2 == IF cursor # NoCursor THEN SetPath(d1, "cursor", cursor)
                            ELSE d1
                  IN notif' = [notif EXCEPT ![h] =
                                  [@ EXCEPT !.pc = "saveWebhook", !.doc = d2]]
          \/ notif' = [notif EXCEPT ![h] = NotifyCatch(@)]       \* findOne rejects
    /\ UNCHANGED <<now, webhooks, forms, users, responses, cronVars, regVars, authVars, formVars>>

\* lines 61-66 and 85-87: await webhookDoc.save(); then processWebhookChanges
\* looks up the changes of the webhook's own table
NotifySaveWebhook(h) ==
    /\ notif[h].pc = "saveWebhook"
    /\ \/ /\ webhooks' = [webhooks EXCEPT ![notif[h].hook] = Persist(@, notif[h].doc)]
          /\ \E table \in Tables, changes \in TableChanges :
                notif' = [notif EXCEPT ![h] =
                   IF table # notif[h].doc.airtableTableId THEN Acknowledge(@)
                   ELSE NextItem([@ EXCEPT !.items = WorkItems(changes)])]
       \/ /\ notif' = [notif EXCEPT ![h] = NotifyCatch(@)]    \* save rejects
          /\ UNCHANGED webhooks
    /\ UNCHANGED <<now, forms, users, responses, cronVars, regVars, authVars, formVars>>

\* mutant of ResponseMatches: the query forgets formId
ResponseMatches_AnyForm(rec, formId) == rec \in DOMAIN responses

\* lines 93-96 and 119-122: Response.findOne({airtableRecordId, formId}) finds a
\* document
ResponseMatches(rec, formId) ==
    rec \in DOMAIN responses /\ responses[rec].formId = formId

\* lines 93-103 and 119-127: await Response.findOne({airtableRecordId, formId});
\* a rejection is caught for this record alone (lines 109, 132)
NotifyFindResponse(h) ==
    /\ notif[h].pc = "findResponse"
    /\ LET item == notif[h].items[notif[h].i]
           match == ResponseMatches(item.rec, notif[h].doc.formId)
       IN \/ /\ ~match
             /\ notif' = [notif EXCEPT ![h] = NextItem(@)]
          \/ /\ match /\ item.op = "changed" /\ ~item.current
             /\ notif' = [notif EXCEPT ![h] = NextItem(@)]
          \/ /\ match /\ item.op = "changed" /\ item.current
             /\ notif' = [notif EXCEPT ![h] = [@ EXCEPT !.pc = "saveResponse",
                   !.resp = MarkSynced(responses[item.rec] @@ [dirty |-> {}], now)]]
          \/ /\ match /\ item.op = "destroyed"
             /\ notif' = [notif EXCEPT ![h] = [@ EXCEPT !.pc = "saveResponse",
                   !.resp = MarkDeleted(responses[item.rec] @@ [dirty |-> {}], now)]]
          \/ notif' = [notif EXCEPT ![h] = NextItem(RecordCatch(@))]  \* findOne rejects
    /\ UNCHANGED <<now, webhooks, forms, users, responses, cronVars, regVars, authVars, formVars>>

\* lines 104 and 128: await response.save(); a rejection is caught for this
\* record alone
NotifySaveResponse(h) ==
    /\ notif[h].pc = "saveResponse"
    /\ LET item == notif[h].items[notif[h].i]
           rec == item.rec
       IN \/ /\ responses' = [responses EXCEPT ![rec] = Persist(@, notif[h].resp)]
             /\ notif' = [notif EXCEPT ![h] = NextItem([@ EXCEPT
                   !.replayed =
                       @ \/ (item.op = "destroyed" /\ responses[rec].deletedInAirtable),
                   !.afterDelete =
                       @ \/ (item.op = "changed" /\ responses[rec].deletedInAirtable)])]
          \/ /\ notif' = [notif EXCEPT ![h] = NextItem(RecordCatch(@))]  \* save rejects
             /\ UNCHANGED responses
    /\ UNCHANGED <<now, webhooks, forms, users, cronVars, regVars, authVars, formVars>>

Notify ==
    \/ Tick
    \/ \E h \in HandlerIds : NotifyReceive(h)
    \/ \E h \in HandlerIds : NotifyFindWebhook(h)
    \/ \E h \in HandlerIds : NotifySaveWebhook(h)
    \/ \E h \in HandlerIds : NotifyFindResponse(h)
    \/ \E h \in HandlerIds : NotifySaveResponse(h)

SpecNotify == InitNotify /\ [][Notify]_vars

\* C5: a destroyed-record entry delivered again, for a record the first delivery
\* has marked deleted, leaves the record deleted and changes nothing but its
\* lastSyncedAt; no other record differs, and the handler goes on to the next
\* record or to its 200 answer.
C5_ReplayIdempotent ==
    [][\A h \in HandlerIds :
          (/\ notif[h].pc = "saveResponse"
           /\ notif'[h] # notif[h]
           /\ notif[h].items[notif[h].i].op = "destroyed"
           /\ responses[notif[h].items[notif[h].i].rec].deletedInAirtable)
          => LET rec == notif[h].items[notif[h].i].rec
             IN /\ responses'[rec].deletedInAirtable
                /\ responses'[rec].answers = responses[rec].answers
                /\ responses'[rec].formId = responses[rec].formId
                /\ \A k \in DOMAIN responses \ {rec} : responses'[k] = responses[k]
                /\ DOMAIN responses' = DOMAIN responses
                /\ webhooks' = webhooks
                /\ \/ notif'[h].pc = "findResponse"
                   \/ notif'[h].pc = "done" /\ notif'[h].status = 200]_vars

\* a handler has answered 200 after saving a destroyed entry for a record that
\* an earlier delivery had already marked deleted
C5_Witness ==
    \E h \in HandlerIds :
        /\ notif[h].pc = "done" /\ notif[h].status = 200 /\ notif[h].replayed
        /\ \E k \in DOMAIN responses : responses[k].deletedInAirtable

\* C6: every answered notification request was answered 200, whatever happened
\* while it was handled.
C6_AlwaysAcknowledged ==
    \A h \in HandlerIds : notif[h].pc = "done" => notif[h].status = 200

\* a request whose handling failed and was logged has been answered 200
C6_Witness ==
    \E h \in HandlerIds :
        notif[h].pc = "done" /\ notif[h].logged /\ notif[h].status = 200

\* a handler is between its Webhook.findOne and its answer
InFlight(h) == notif[h].pc \in {"saveWebhook", "findResponse", "saveResponse"}

\* C8: no two handlers are at the same time between their first read and their
\* last write of the same subscription.
C8_Serialized ==
    \A h1, h2 \in HandlerIds :
        (h1 # h2 /\ InFlight(h1) /\ InFlight(h2)) => notif[h1].hook # notif[h2].hook

\* ------------------------------------------------ the auth routes: POST /refresh
RefreshIds == 1..MaxRefreshes
NoToken == 0

\* userSchema: the tokens of the form owner's User document
Credential(refreshToken, tokenExpiresAt) ==
    [accessToken |-> 1, refreshToken |-> refreshToken, tokenExpiresAt |-> tokenExpiresAt]

\* userSchema.methods.isTokenExpired
isTokenExpired(cred, t) == t >= cred.tokenExpiresAt

IdleRefresh == [pc |-> "idle", user |-> <<>>, status |-> 0, requiresReauth |-> FALSE,
                sent |-> FALSE, concurrent |-> FALSE]

RefreshInFlight(q) == refresh[q].pc \in {"exchange", "save"}

\* lines 587-593: the catch block answers 400 with requiresReauth
RefreshCatch(rq) ==
    [rq EXCEPT !.pc = "done", !.user = <<>>, !.status = 400, !.requiresReauth = TRUE]

\* The owner's credential is expired or still valid, with or without a refresh
\* token; tokens are numbered in the order Airtable issues them
InitRefresh ==
    /\ now = StartNow
    /\ forms = WIds
    /\ users = {OwnerId}
    /\ webhooks = <<>>
    /\ sweep = [s \in SweepIds |-> IdleSweep]
    /\ lastTick = StartNow
    /\ streak = <<>>
    /\ creds \in [{OwnerId} -> {Credential(r, e) : r \in {NoToken, 1},
                                                  e \in {StartNow - 1, StartNow + 1}}]
    /\ refresh = [q \in RefreshIds |-> IdleRefresh]
    /\ upstream = 0
    /\ OAuthIdle
    /\ issued = [t \in {creds[OwnerId].accessToken} |-> creds[OwnerId].tokenExpiresAt]
    /\ RegIdle /\ HookIdle /\ FormIdle

\* lines 542-551: authenticate has loaded req.user; without a refresh token
\* the request is answered 400
RefreshStart(q) ==
    /\ refresh[q].pc = "idle"
    /\ OwnerId \in DOMAIN creds
    /\ \A k \in RefreshIds : k < q => refresh[k].pc # "idle"
    /\ LET user == creds[OwnerId] @@ [dirty |-> {}]
           others == {k \in RefreshIds : RefreshInFlight(k)}
       IN refresh' = [k \in RefreshIds |->
            IF k = q
            THEN IF user.refreshToken = NoToken
                 THEN [refresh[q] EXCEPT !.pc = "done", !.status = 400]
                 ELSE [refresh[q] EXCEPT !.pc = "exchange", !.user = user,
                                         !.concurrent = others # {} /\ isTokenExpired(user, now)]
            ELSE IF k \in others /\ user.refreshToken # NoToken /\ isTokenExpired(user, now)
                 THEN [refresh[k] EXCEPT !.concurrent = TRUE]
                 ELSE refresh[k]]
    /\ UNCHANGED <<now, webhooks, forms, users, creds, upstream, oauthVars, issued,
                   cronVars, regVars, hookVars, formVars>>

\* lines 557-577: await axios.post(AIRTABLE_TOKEN_URL, grant_type=refresh_token);
\* Airtable answers with a new access token, maybe a new refresh token, and
\* expires_in, or rejects the exchange
RefreshExchange(q) ==
    /\ refresh[q].pc = "exchange"
    /\ upstream' = upstream + 1
    /\ \/ \E refresh_token \in {NoToken, upstream + 2}, expires_in \in 1..MaxExpiresIn :
            LET u1 == SetPath(refresh[q].user, "accessToken", upstream + 2)
                u2 == IF refresh_token # NoToken
                      THEN SetPath(u1, "refreshToken", refresh_token) ELSE u1
                u3 == SetPath(u2, "tokenExpiresAt", now + expires_in)
            IN /\ refresh' = [refresh EXCEPT ![q] =
                              [@ EXCEPT !.pc = "save", !.user = u3, !.sent = TRUE]]
               /\ issued' = issued @@ ((upstream + 2) :> (now + expires_in))
       \/ /\ refresh' = [refresh EXCEPT ![q] = RefreshCatch([@ EXCEPT !.sent = TRUE])]
          /\ UNCHANGED issued
    /\ UNCHANGED <<now, webhooks, forms, users, creds, oauthVars, cronVars, regVars, hookVars, formVars>>

\* lines 579-585: await user.save(), then the 200 answer
RefreshSave(q) ==
    /\ refresh[q].pc = "save"
    /\ \/ /\ creds' = [creds EXCEPT ![OwnerId] = Persist(@, refresh[q].user)]
          /\ refresh' = [refresh EXCEPT ![q] =
                            [@ EXCEPT !.pc = "done", !.user = <<>>, !.status = 200]]
       \/ /\ refresh' = [refresh EXCEPT ![q] = RefreshCatch(@)]
          /\ UNCHANGED creds
    /\ UNCHANGED <<now, webhooks, forms, users, upstream, oauthVars, issued,
                   cronVars, regVars, hookVars, formVars>>

Refresh ==
    \/ \E q \in RefreshIds : RefreshStart(q)
    \/ \E q \in RefreshIds : RefreshExchange(q)
    \/ \E q \in RefreshIds : RefreshSave(q)

SpecRefresh == InitRefresh /\ [][Refresh]_vars

\* C4: among the callers that ask for a refresh of the expired credential while
\* another refresh of it is in flight, together with that one, at most one
\* sends a refresh-token exchange to Airtable.
C4_SingleFlight ==
    Cardinality({q \in RefreshIds : refresh[q].concurrent /\ refresh[q].sent}) <= 1

\* --------------------------------------------------- utils/conditionalLogic.js
\* JavaScript values as the functions meet them: the type tag and the payload.
\* A text is a sequence of one-character strings.
Val(t, v) == [t |-> t, v |-> v]
Undefined == Val("undefined", 0)
Null == Val("null", 0)
Str(s) == Val("string", s)
Num(n) == Val("number", n)
Bool(b) == Val("boolean", b)
Arr(items) == Val("array", items)

Chars == {"a", "A", "b"}

\* String.prototype.toLowerCase, character by character
LowerChar(c) == IF c = "A" THEN "a" ELSE IF c = "B" THEN "b" ELSE c
toLowerCase(s) == [k \in DOMAIN s |-> LowerChar(s[k])]

\* String.prototype.includes: needle occurs in hay as a contiguous run
includes(hay, needle) ==
    \E k \in 0..(Len(hay) - Len(needle)) : SubSeq(hay, k + 1, k + Len(needle)) = needle

\* String(x) of a value that is not an array
ScalarText(x) ==
    CASE x.t = "string" -> x.v
      [] x.t = "number" -> IF x.v = 0 THEN <<"0">> ELSE <<"1">>
      [] x.t = "boolean" -> IF x.v THEN <<"t", "r", "u", "e">>
                            ELSE <<"f", "a", "l", "s", "e">>
      [] x.t = "null" -> <<"n", "u", "l", "l">>
      [] x.t = "undefined" -> <<"u", "n", "d", "e", "f", "i", "n", "e", "d">>

\* Array.prototype.join(','): null and undefined elements give the empty text
RECURSIVE Join(_)
Join(items) ==
    IF items = <<>> THEN <<>>
    ELSE LET head == IF items[1].t \in {"null", "undefined"} THEN <<>>
                     ELSE ScalarText(items[1])
         IN IF Len(items) = 1 THEN head ELSE head \o <<",">> \o Join(Tail(items))

\* String(x)
String(x) == IF x.t = "array" THEN Join(x.v) ELSE ScalarText(x)

\* a === b; an array parsed from a request is never the array of a rule
StrictEquals(a, b) == a.t = b.t /\ a.t # "array" /\ a.v = b.v

\* mutant of ArrayIncludes: every value counts as listed
ArrayIncludes_Any(items, value) == TRUE

\* Array.prototype.includes(value)
ArrayIncludes(items, value) == \E k \in DOMAIN items : StrictEquals(items[k], value)

\* answersSoFar[questionKey]: undefined for a key the object does not hold
Lookup(answers, key) == IF key \in DOMAIN answers THEN answers[key] ELSE Undefined

\* lines 26 and 315: answer === undefined || answer === null || answer === ''
IsMissing(answer) == answer \in {Undefined, Null, Str(<<>>)}

\* mutant of evaluateCondition: notEquals on an array answers like equals
evaluateCondition_ArraySame(condition, answersSoFar) ==
    LET answer == Lookup(answersSoFar, condition.questionKey)
        value == condition.value
    IN  IF IsMissing(answer) THEN condition.operator = "notEquals"
        ELSE CASE condition.operator = "equals" ->
                    IF answer.t = "array" THEN ArrayIncludes(answer.v, value)
                    ELSE StrictEquals(answer, value)
               [] condition.operator = "notEquals" ->
                    IF answer.t = "array" THEN ArrayIncludes(answer.v, value)
                    ELSE ~StrictEquals(answer, value)
               [] condition.operator = "contains" ->
                    IF answer.t = "string"
                    THEN includes(toLowerCase(answer.v), toLowerCase(String(value)))
                    ELSE IF answer.t = "array"
                    THEN \E k \in DOMAIN answer.v :
                            includes(toLowerCase(String(answer.v[k])),
                                     toLowerCase(String(value)))
                    ELSE FALSE
               [] OTHER -> FALSE

\* mutant of evaluateCondition: a missing answer fails every operator
evaluateCondition_MissingFails(condition, answersSoFar) ==
    LET answer == Lookup(answersSoFar, condition.questionKey)
        value == condition.value
    IN  IF IsMissing(answer) THEN FALSE
        ELSE CASE condition.operator = "equals" ->
                    IF answer.t = "array" THEN ArrayIncludes(answer.v, value)
                    ELSE StrictEquals(answer, value)
               [] condition.operator = "notEquals" ->
                    IF answer.t = "array" THEN ~ArrayIncludes(answer.v, value)
                    ELSE ~StrictEquals(answer, value)
               [] condition.operator = "contains" ->
                    IF answer.t = "string"
                    THEN includes(toLowerCase(answer.v), toLowerCase(String(value)))
                    ELSE IF answer.t = "array"
                    THEN \E k \in DOMAIN answer.v :
                            includes(toLowerCase(String(answer.v[k])),
                                     toLowerCase(String(value)))
                    ELSE FALSE
               [] OTHER -> FALSE

\* mutant of evaluateCondition: contains compares without lower-casing
evaluateCondition_CaseSensitive(condition, answersSoFar) ==
    LET answer == Lookup(answersSoFar, condition.questionKey)
        value == condition.value
    IN  IF IsMissing(answer) THEN condition.operator = "notEquals"
        ELSE CASE condition.operator = "equals" ->
                    IF answer.t = "array" THEN ArrayIncludes(answer.v, value)
                    ELSE StrictEquals(answer, value)
               [] condition.operator = "notEquals" ->
                    IF answer.t = "array" THEN ~ArrayIncludes(answer.v, value)
                    ELSE ~StrictEquals(answer, value)
               [] condition.operator = "contains" ->
                    IF answer.t = "string"
                    THEN includes(answer.v, String(value))
                    ELSE IF answer.t = "array"
                    THEN \E k \in DOMAIN answer.v :
                            includes(String(answer.v[k]), String(value))
                    ELSE FALSE
               [] OTHER -> FALSE

\* lines 21-65: evaluateCondition, the closure of shouldShowQuestion
evaluateCondition(condition, answersSoFar) ==
    LET answer == Lookup(answersSoFar, condition.questionKey)
        value == condition.value
    IN  IF IsMissing(answer) THEN condition.operator = "notEquals"
        ELSE CASE condition.operator = "equals" ->
                    IF answer.t = "array" THEN ArrayIncludes(answer.v, value)
                    ELSE StrictEquals(answer, value)
               [] condition.operator = "notEquals" ->
                    IF answer.t = "array" THEN ~ArrayIncludes(answer.v, value)
                    ELSE ~StrictEquals(answer, value)
               [] condition.operator = "contains" ->
                    IF answer.t = "string"
                    THEN includes(toLowerCase(answer.v), toLowerCase(String(value)))
                    ELSE IF answer.t = "array"
                    THEN \E k \in DOMAIN answer.v :
                            includes(toLowerCase(String(answer.v[k])),
                                     toLowerCase(String(value)))
                    ELSE FALSE
               [] OTHER -> FALSE

\* a conditionalRules value: null, or an object with a logic and, when it has
\* them, conditions
NoRules == [defined |-> FALSE, hasConditions |-> FALSE, logic |-> "", conditions |-> <<>>]
Rules(logic, conditions) ==
    [defined |-> TRUE, hasConditions |-> TRUE, logic |-> logic, conditions |-> conditions]
RulesWithoutConditions(logic) ==
    [defined |-> TRUE, hasConditions |-> FALSE, logic |-> logic, conditions |-> <<>>]

\* line 14: !rules || !rules.conditions || rules.conditions.length === 0
HasNoConditions(rules) ==
    ~rules.defined \/ ~rules.hasConditions \/ Len(rules.conditions) = 0

\* line 68: rules.conditions.map(evaluateCondition)
ConditionResults(rules, answersSoFar) ==
    [k \in DOMAIN rules.conditions |-> evaluateCondition(rules.conditions[k], answersSoFar)]

\* mutant of Combine: an unknown logic hides the question
Combine_FailClosed(logic, results) ==
    IF logic = "AND" THEN \A k \in DOMAIN results : results[k]
    ELSE IF logic = "OR" THEN \E k \in DOMAIN results : results[k]
    ELSE FALSE

\* mutant of Combine: AND answers like OR
Combine_AnyForAll(logic, results) ==
    IF logic = "AND" THEN \E k \in DOMAIN results : results[k]
    ELSE IF logic = "OR" THEN \E k \in DOMAIN results : results[k]
    ELSE TRUE

\* lines 71-78: every under AND, some under OR, true for any other logic
Combine(logic, results) ==
    IF logic = "AND" THEN \A k \in DOMAIN results : results[k]
    ELSE IF logic = "OR" THEN \E k \in DOMAIN results : results[k]
    ELSE TRUE

\* mutant of shouldShowQuestion: an empty condition list is combined like any other
shouldShowQuestion_NoShortcut(rules, answersSoFar) ==
    IF ~rules.defined \/ ~rules.hasConditions THEN TRUE
    ELSE Combine(rules.logic, ConditionResults(rules, answersSoFar))

\* lines 12-79: shouldShowQuestion
shouldShowQuestion(rules, answersSoFar) ==
    IF HasNoConditions(rules) THEN TRUE
    ELSE Combine(rules.logic, ConditionResults(rules, answersSoFar))

NoIndex == -1
RuleError(index, key, condIndex, error) ==
    [questionIndex |-> index, questionKey |-> key, conditionIndex |-> condIndex,
     error |-> error]

\* line 129: validOperators; line 141: the logic operators
ValidOperators == {"equals", "notEquals", "contains"}
ValidLogic == {"AND", "OR"}

\* lines 108-137: the three checks on one condition, in the order of the code
ConditionErrors(question, index, condition, condIndex, questionKeys) ==
    (IF condition.questionKey \notin questionKeys
     THEN <<RuleError(index, question.questionKey, condIndex, "does not exist")>>
     ELSE <<>>)
    \o (IF condition.questionKey = question.questionKey
        THEN <<RuleError(index, question.questionKey, condIndex, "referencing itself")>>
        ELSE <<>>)
    \o (IF condition.operator \notin ValidOperators
        THEN <<RuleError(index, question.questionKey, condIndex, "invalid operator")>>
        ELSE <<>>)

RECURSIVE ConditionsErrors(_, _, _, _)
ConditionsErrors(question, index, condIndex, questionKeys) ==
    LET conditions == question.conditionalRules.conditions
    IN  IF condIndex >= Len(conditions) THEN <<>>
        ELSE ConditionErrors(question, index, conditions[condIndex + 1], condIndex,
                             questionKeys)
             \o ConditionsErrors(question, index, condIndex + 1, questionKeys)

\* lines 102-148: the forEach callback on one question
QuestionErrors(question, index, questionKeys) ==
    LET rules == question.conditionalRules
    IN  IF ~rules.defined \/ ~rules.hasConditions THEN <<>>
        ELSE ConditionsErrors(question, index, 0, questionKeys)
             \o (IF rules.logic # "" /\ rules.logic \notin ValidLogic
                 THEN <<RuleError(index, question.questionKey, NoIndex,
                                  "invalid logic operator")>>
                 ELSE <<>>)

RECURSIVE QuestionsErrors(_, _, _)
QuestionsErrors(questions, index, questionKeys) ==
    IF index >= Len(questions) THEN <<>>
    ELSE QuestionErrors(questions[index + 1], index, questionKeys)
         \o QuestionsErrors(questions, index + 1, questionKeys)

\* lines 87-91: getVisibleQuestions, the keys of the questions whose rules hold
\* on the given answers, in the order of the questions
RECURSIVE getVisibleQuestions(_, _)
getVisibleQuestions(questions, answersSoFar) ==
    IF questions = <<>> THEN <<>>
    ELSE (IF shouldShowQuestion(Head(questions).conditionalRules, answersSoFar)
          THEN <<Head(questions).questionKey>> ELSE <<>>)
         \o getVisibleQuestions(Tail(questions), answersSoFar)

\* lines 98-154: validateConditionalRules
validateConditionalRules(questions) ==
    LET questionKeys == {questions[k].questionKey : k \in DOMAIN questions}
        errors == QuestionsErrors(questions, 0, questionKeys)
    IN  [isValid |-> Len(errors) = 0, errors |-> errors]

\* ------------------------------------ calls of the conditional-logic functions
RECURSIVE SeqsOver(_, _)
SeqsOver(S, n) ==
    IF n = 0 THEN {<<>>}
    ELSE LET shorter == SeqsOver(S, n - 1)
         IN shorter \cup {Append(q, x) : q \in {r \in shorter : Len(r) = n - 1}, x \in S}

Texts == SeqsOver(Chars, MaxText)
ScalarValues ==
    {Undefined, Null, Num(0), Num(1), Bool(TRUE), Bool(FALSE)} \cup {Str(t) : t \in Texts}
ItemValues == {Null, Num(1)} \cup {Str(t) : t \in SeqsOver(Chars, 1)}
ArrayValues == {Arr(q) : q \in SeqsOver(ItemValues, MaxItems)}
AnswerValues == ScalarValues \cup ArrayValues
CompareValues == ScalarValues \cup {Arr(<<>>), Arr(<<Str(<<"a">>)>>)}
Operators == ValidOperators \cup {"matches"}
Logics == ValidLogic \cup {"XOR", ""}

\* an answers object: some of the keys, each with a value
AnswersOver(keys, values) == UNION {[ks -> values] : ks \in SUBSET keys}

Condition(questionKey, operator, value) ==
    [questionKey |-> questionKey, operator |-> operator, value |-> value]

\* one condition on the question "k1", every answer shape against every value
SingleCalls ==
    {[rules |-> Rules(logic, <<Condition("k1", op, value)>>), answers |-> answers] :
        logic \in ValidLogic, op \in Operators, value \in CompareValues,
        answers \in AnswersOver({"k1"}, AnswerValues)}

\* rules of every shape over two questions, against a few answers
FewValues == {Str(<<"a">>), Num(1)}
FewAnswers == {Str(<<>>), Str(<<"a">>), Str(<<"A">>), Num(1), Arr(<<Str(<<"a">>)>>)}
FewConditions ==
    {Condition(key, op, value) : key \in {"k1", "k2"}, op \in Operators, value \in FewValues}
RuleShapes ==
    {NoRules} \cup {RulesWithoutConditions(logic) : logic \in Logics}
    \cup {Rules(logic, conditions) :
            logic \in Logics, conditions \in SeqsOver(FewConditions, MaxConditions)}
ShapeCalls ==
    {[rules |-> rules, answers |-> answers] :
        rules \in RuleShapes, answers \in AnswersOver({"k1", "k2"}, FewAnswers)}

\* the questions validateConditionalRules is given: question k has the key "k<k>",
\* its conditions name an existing key or "k9" and a valid or an unknown operator
CheckedConditions ==
    {Condition(key, op, Num(1)) : key \in {"k1", "k9"}, op \in {"equals", "matches"}}
CheckedRules ==
    {NoRules} \cup {RulesWithoutConditions(logic) : logic \in {"AND", "XOR", ""}}
    \cup {Rules(logic, conditions) :
            logic \in {"AND", "XOR", ""},
            conditions \in SeqsOver(CheckedConditions, MaxConditions - 1)}
QuestionKey(k) == IF k = 1 THEN "k1" ELSE IF k = 2 THEN "k2" ELSE "k3"
Question(key, rules) == [questionKey |-> key, conditionalRules |-> rules]
QuestionLists ==
    UNION {{[k \in 1..n |-> Question(QuestionKey(k), rs[k])] : rs \in [1..n -> CheckedRules]} :
            n \in 0..MaxQuestions}

Called(fn, rules, answers, questions) ==
    [fn |-> fn, pc |-> "called", rules |-> rules, answers |-> answers,
     questions |-> questions, results |-> <<>>, result |-> FALSE, errors |-> <<>>]

\* a call of shouldShowQuestion or of validateConditionalRules has been made
InitLogic ==
    /\ now = StartNow
    /\ forms = {}
    /\ users = {}
    /\ webhooks = <<>>
    /\ sweep = [s \in SweepIds |-> IdleSweep]
    /\ lastTick = StartNow
    /\ streak = <<>>
    /\ RegIdle /\ HookIdle /\ AuthIdle
    /\ submit = <<>> /\ formDocs = <<>> /\ edit = <<>> /\ created = 0
    /\ probe \in {Called("shouldShowQuestion", c.rules, c.answers, <<>>) :
                     c \in SingleCalls \cup ShapeCalls}
               \cup {Called("validateConditionalRules", NoRules, <<>>, q) :
                        q \in QuestionLists}

\* shouldShowQuestion(rules, answersSoFar) runs and returns
CallShouldShowQuestion ==
    /\ probe.fn = "shouldShowQuestion" /\ probe.pc = "called"
    /\ probe' = [probe EXCEPT
          !.pc = "returned",
          !.results = IF HasNoConditions(probe.rules) THEN <<>>
                      ELSE ConditionResults(probe.rules, probe.answers),
          !.result = shouldShowQuestion(probe.rules, probe.answers)]
    /\ UNCHANGED <<now, webhooks, forms, users, submit, formDocs, edit, created,
                   cronVars, regVars, hookVars, authVars>>

\* validateConditionalRules(questions) runs and returns
CallValidateConditionalRules ==
    /\ probe.fn = "validateConditionalRules" /\ probe.pc = "called"
    /\ LET r == validateConditionalRules(probe.questions)
       IN probe' = [probe EXCEPT !.pc = "returned", !.result = r.isValid,
                                 !.errors = r.errors]
    /\ UNCHANGED <<now, webhooks, forms, users, submit, formDocs, edit, created,
                   cronVars, regVars, hookVars, authVars>>

Logic ==
    \/ CallShouldShowQuestion
    \/ CallValidateConditionalRules

SpecLogic == InitLogic /\ [][Logic]_vars

\* ----------------------------------------------- the conditional-logic claims
Returned_(fn) == probe.fn = fn /\ probe.pc = "returned"

\* the violations of a question list, one per offending condition and kind and
\* one per rule whose combinator is neither AND nor OR
Violations(questions) ==
    LET keys == {questions[k].questionKey : k \in DOMAIN questions}
        ruled == {k \in DOMAIN questions : questions[k].conditionalRules.defined}
        slots == UNION {{<<k, j>> : j \in DOMAIN questions[k].conditionalRules.conditions} :
                          k \in ruled}
        cond(v) == questions[v[1]].conditionalRules.conditions[v[2]]
    IN  {<<v[1], v[2], "does not exist">> :
            v \in {u \in slots : cond(u).questionKey \notin keys}}
        \cup {<<v[1], v[2], "referencing itself">> :
                v \in {u \in slots : cond(u).questionKey = questions[u[1]].questionKey}}
        \cup {<<v[1], v[2], "invalid operator">> :
                v \in {u \in slots : cond(u).operator \notin ValidOperators}}
        \cup {<<k, 0, "invalid logic operator">> :
                k \in {r \in ruled :
                         questions[r].conditionalRules.logic \notin ValidLogic \cup {""}}}

\* C12: validateConditionalRules answers invalid exactly when the questions hold
\* a violation, and its error list has one entry for every violation.
C12_ValidateReportsAll ==
    Returned_("validateConditionalRules")
        => /\ Len(probe.errors) = Cardinality(Violations(probe.questions))
           /\ ~probe.result <=> Violations(probe.questions) # {}

\* the condition k of the rules evaluated, and the answer it looks at
CondAt(k) == probe.rules.conditions[k]
AnswerAt(k) == Lookup(probe.answers, CondAt(k).questionKey)
Evaluated == Returned_("shouldShowQuestion") /\ ~HasNoConditions(probe.rules)

\* C13: on an answer that is not missing, scalar or array, a notEquals
\* condition evaluates to the negation of the equals condition on the same
\* question and value.
C13_NotEqualsIsComplement ==
    Evaluated =>
        \A k \in DOMAIN probe.results :
            (~IsMissing(AnswerAt(k)) /\ CondAt(k).operator \in {"equals", "notEquals"})
                => LET other == IF CondAt(k).operator = "equals" THEN "notEquals"
                                ELSE "equals"
                   IN probe.results[k] =
                        ~evaluateCondition([CondAt(k) EXCEPT !.operator = other],
                                           probe.answers)

\* a notEquals condition was false on an array answer that holds the value
C13_Witness ==
    /\ Evaluated
    /\ \E k \in DOMAIN probe.results :
          /\ CondAt(k).operator = "notEquals"
          /\ AnswerAt(k).t = "array" /\ Len(AnswerAt(k).v) = 2
          /\ ~probe.results[k]

\* C14: on a missing answer (undefined, null or the empty string) equals and
\* contains evaluate to false and notEquals to true, whatever the value.
C14_MissingAnswer ==
    Evaluated =>
        \A k \in DOMAIN probe.results :
            (IsMissing(AnswerAt(k)) /\ CondAt(k).operator \in ValidOperators)
                => probe.results[k] = (CondAt(k).operator = "notEquals")

\* a notEquals condition was true on the empty string, and the question shown
C14_Witness ==
    /\ Evaluated
    /\ Len(probe.results) = 1
    /\ CondAt(1).operator = "notEquals"
    /\ AnswerAt(1) = Str(<<>>)
    /\ probe.results[1] /\ probe.result

\* C15: for rules with conditions, AND shows the question exactly when every
\* condition holds and OR exactly when at least one does.
C15_AndOr ==
    Evaluated =>
        /\ probe.rules.logic = "AND"
              => probe.result = \A k \in DOMAIN probe.results : probe.results[k]
        /\ probe.rules.logic = "OR"
              => probe.result = \E k \in DOMAIN probe.results : probe.results[k]
        /\ \A k \in DOMAIN probe.rules.conditions :
              probe.results[k] = evaluateCondition(CondAt(k), probe.answers)

\* an AND rule with one true and one false condition hid the question
C15_Witness ==
    /\ Evaluated
    /\ probe.rules.logic = "AND"
    /\ Len(probe.results) = 2
    /\ probe.results[1] /\ ~probe.results[2]
    /\ ~probe.result

\* C16: null rules and rules with an empty condition list show the question,
\* whatever the answers and the combinator.
C16_NoConditionsShows ==
    (/\ Returned_("shouldShowQuestion")
     /\ \/ ~probe.rules.defined
        \/ probe.rules.hasConditions /\ probe.rules.conditions = <<>>)
        => probe.result

\* rules with an empty condition list and the combinator OR showed the question
\* against answers that were given
C16_Witness ==
    /\ Returned_("shouldShowQuestion")
    /\ probe.rules.defined /\ probe.rules.hasConditions
    /\ probe.rules.conditions = <<>> /\ probe.rules.logic = "OR"
    /\ DOMAIN probe.answers # {}
    /\ probe.result

\* what C17 says of a contains condition: substring after lower-casing for a
\* text, some element for an array, false for any other answer
ContainsAsClaimed(answer, value) ==
    IF answer.t = "string"
    THEN includes(toLowerCase(answer.v), toLowerCase(String(value)))
    ELSE IF answer.t = "array"
    THEN \E j \in DOMAIN answer.v :
            includes(toLowerCase(String(answer.v[j])), toLowerCase(String(value)))
    ELSE FALSE

\* C17 as stated: a contains condition is true on a text answer exactly when
\* the value is a substring of it after lower-casing both, on an array answer
\* exactly when some element contains it, and false on any other answer.
C17_ContainsAnyText ==
    Evaluated =>
        \A k \in DOMAIN probe.results :
            CondAt(k).operator = "contains"
                => probe.results[k] = ContainsAsClaimed(AnswerAt(k), CondAt(k).value)

\* C17, amended: the same for every answer but the empty string, on which a
\* contains condition is false whatever the value.
C17_ContainsIgnoresCase ==
    Evaluated =>
        \A k \in DOMAIN probe.results :
            CondAt(k).operator = "contains"
                => probe.results[k] =
                      (AnswerAt(k) # Str(<<>>)
                       /\ ContainsAsClaimed(AnswerAt(k), CondAt(k).value))

\* a contains condition was true on a text that holds the value in another case
C17_Witness ==
    /\ Evaluated
    /\ \E k \in DOMAIN probe.results :
          /\ CondAt(k).operator = "contains"
          /\ AnswerAt(k) = Str(<<"A", "b">>)
          /\ CondAt(k).value = Str(<<"a", "b">>)
          /\ probe.results[k]

\* --------------------------------------- routes/forms.js: POST /:formId/submit
SubmitIds == 1..MaxSubmits
FormId == 1
NoForm == 0
Options == <<Str(<<"a">>)>>

\* questionSchema: the fields the submit handler reads
FormQuestion(key, type, required, rules) ==
    [questionKey |-> key, type |-> type, required |-> required,
     options |-> Options, conditionalRules |-> rules]

\* formSchema: questions, isActive, submissionCount, lastSubmissionAt
FormDoc(questions, isActive) ==
    [questions |-> questions, isActive |-> isActive, submissionCount |-> 0,
     lastSubmissionAt |-> NoDate]

\* the rules the schema lets a stored question hold: none, or AND/OR over
\* conditions with a known operator
StoredRules ==
    {NoRules} \cup
    {Rules("AND", <<Condition(key, op, Str(<<"a">>))>>) :
        key \in {QuestionKey(k) : k \in 1..MaxQuestions}, op \in {"equals", "notEquals"}}

\* a form is stored after validateConditionalRules has accepted its questions
Accepted(questions) ==
    validateConditionalRules([k \in DOMAIN questions |->
        Question(questions[k].questionKey, questions[k].conditionalRules)]).isValid
\* three of the types of the schema, and one that the switch of the submit
\* handler has no case for: the enum is checked when this schema writes a
\* form, not when a document of the collection is read
QuestionTypes == {"singleLineText", "singleSelect", "multipleSelects", "number"}
StoredQuestions ==
    {questions \in
        UNION {{[k \in 1..n |-> FormQuestion(QuestionKey(k), ts[k], rq[k], rs[k])] :
                  ts \in [1..n -> QuestionTypes], rq \in [1..n -> BOOLEAN],
                  rs \in [1..n -> StoredRules]} : n \in 1..MaxQuestions} :
        Accepted(questions)}

\* req.body.answers after JSON.parse: an object, null, or text that does not parse
SubmittedValues ==
    {Null, Str(<<>>), Str(<<"a">>), Str(<<"b">>), Arr(<<Str(<<"a">>)>>),
     Arr(<<Str(<<"b">>)>>)}
Bodies ==
    {[kind |-> "object", answers |-> a] :
        a \in AnswersOver({QuestionKey(k) : k \in 1..MaxQuestions}, SubmittedValues)}
    \cup {[kind |-> kind, answers |-> <<>>] : kind \in {"null", "invalid"}}

IdleSubmit ==
    [pc |-> "idle", form |-> <<>>, body |-> <<>>, status |-> 0, reason |-> "",
     field |-> "", visible |-> <<>>, fields |-> <<>>, record |-> 0]

\* the handler answers: res.status(...).json(...) or next(error)
SubmitRespond(rq, status, reason, field) ==
    [rq EXCEPT !.pc = "done", !.status = status, !.reason = reason, !.field = field]

\* lines 324-327: the answer joins answersSoFar unless it is undefined
Remember(answersSoFar, key, answer) ==
    IF answer = Undefined THEN answersSoFar
    ELSE [k \in DOMAIN answersSoFar \cup {key} |->
             IF k = key THEN answer ELSE answersSoFar[k]]

\* mutant of ValidateFrom: required is enforced on hidden questions too
RECURSIVE ValidateFrom_Hidden(_, _, _, _, _)
ValidateFrom_Hidden(questions, answers, i, answersSoFar, visible) ==
    IF i > Len(questions)
    THEN [ok |-> TRUE, field |-> "", visible |-> visible]
    ELSE LET question == questions[i]
             isVisible == shouldShowQuestion(question.conditionalRules, answersSoFar)
             answer == Lookup(answers, question.questionKey)
         IN  IF question.required /\ IsMissing(answer)
             THEN [ok |-> FALSE, field |-> question.questionKey,
                   visible |-> Append(visible, question.questionKey)]
             ELSE IF ~isVisible
             THEN ValidateFrom_Hidden(questions, answers, i + 1, answersSoFar, visible)
             ELSE ValidateFrom_Hidden(questions, answers, i + 1,
                               Remember(answersSoFar, question.questionKey, answer),
                               Append(visible, question.questionKey))

\* mutant of ValidateFrom: the answer of a hidden question is remembered too
RECURSIVE ValidateFrom_RememberAll(_, _, _, _, _)
ValidateFrom_RememberAll(questions, answers, i, answersSoFar, visible) ==
    IF i > Len(questions)
    THEN [ok |-> TRUE, field |-> "", visible |-> visible]
    ELSE LET question == questions[i]
             isVisible == shouldShowQuestion(question.conditionalRules, answersSoFar)
             answer == Lookup(answers, question.questionKey)
             sofar == Remember(answersSoFar, question.questionKey, answer)
         IN  IF ~isVisible
             THEN ValidateFrom_RememberAll(questions, answers, i + 1, sofar, visible)
             ELSE IF question.required /\ IsMissing(answer)
             THEN [ok |-> FALSE, field |-> question.questionKey,
                   visible |-> Append(visible, question.questionKey)]
             ELSE ValidateFrom_RememberAll(questions, answers, i + 1, sofar,
                               Append(visible, question.questionKey))

\* mutant of ValidateFrom: the loop goes on after a missing required answer
\* and reports the last one
RECURSIVE ValidateFrom_Last(_, _, _, _, _)
ValidateFrom_Last(questions, answers, i, answersSoFar, visible) ==
    IF i > Len(questions)
    THEN [ok |-> TRUE, field |-> "", visible |-> visible]
    ELSE LET question == questions[i]
             isVisible == shouldShowQuestion(question.conditionalRules, answersSoFar)
             answer == Lookup(answers, question.questionKey)
             rest == ValidateFrom_Last(questions, answers, i + 1,
                               Remember(answersSoFar, question.questionKey, answer),
                               Append(visible, question.questionKey))
         IN  IF ~isVisible
             THEN ValidateFrom_Last(questions, answers, i + 1, answersSoFar, visible)
             ELSE IF question.required /\ IsMissing(answer) /\ rest.ok
             THEN [ok |-> FALSE, field |-> question.questionKey,
                   visible |-> Append(visible, question.questionKey)]
             ELSE rest

\* lines 305-329: the validation loop from question i on
RECURSIVE ValidateFrom(_, _, _, _, _)
ValidateFrom(questions, answers, i, answersSoFar, visible) ==
    IF i > Len(questions)
    THEN [ok |-> TRUE, field |-> "", visible |-> visible]
    ELSE LET question == questions[i]
             isVisible == shouldShowQuestion(question.conditionalRules, answersSoFar)
             answer == Lookup(answers, question.questionKey)
         IN  IF ~isVisible
             THEN ValidateFrom(questions, answers, i + 1, answersSoFar, visible)
             ELSE IF question.required /\ IsMissing(answer)
             THEN [ok |-> FALSE, field |-> question.questionKey,
                   visible |-> Append(visible, question.questionKey)]
             ELSE ValidateFrom(questions, answers, i + 1,
                               Remember(answersSoFar, question.questionKey, answer),
                               Append(visible, question.questionKey))

\* lines 334-395: the mapping loop from question i on; every question with an
\* answer other than undefined and null is mapped or rejected by its type
RECURSIVE MapFrom(_, _, _, _)
MapFrom(questions, answers, i, fields) ==
    IF i > Len(questions)
    THEN [ok |-> TRUE, reason |-> "", field |-> "", fields |-> fields]
    ELSE LET question == questions[i]
             key == question.questionKey
             answer == Lookup(answers, key)
             put(v) == MapFrom(questions, answers, i + 1,
                               [k \in DOMAIN fields \cup {key} |->
                                   IF k = key THEN v ELSE fields[k]])
             reject(reason) ==
                [ok |-> FALSE, reason |-> reason, field |-> key, fields |-> fields]
         IN  IF answer \in {Undefined, Null}
             THEN MapFrom(questions, answers, i + 1, fields)
             ELSE CASE question.type = "singleLineText" -> put(Str(String(answer)))
                    [] question.type = "singleSelect" ->
                         IF ~ArrayIncludes(question.options, answer)
                         THEN reject("invalid option") ELSE put(answer)
                    [] question.type = "multipleSelects" ->
                         IF answer.t # "array" THEN reject("must be an array")
                         ELSE IF \E j \in DOMAIN answer.v :
                                    ~ArrayIncludes(question.options, answer.v[j])
                         THEN reject("invalid options") ELSE put(answer)
                    [] OTHER -> put(answer)

\* a stored form, active or not, whose owner exists or not; nothing submitted yet
InitSubmit ==
    /\ now = StartNow
    /\ formDocs \in [{FormId} -> {FormDoc(q, a) : q \in StoredQuestions, a \in BOOLEAN}]
    /\ forms = DOMAIN formDocs
    /\ users \in SUBSET {OwnerId}
    /\ webhooks = <<>>
    /\ sweep = [s \in SweepIds |-> IdleSweep]
    /\ lastTick = StartNow
    /\ streak = <<>>
    /\ RegIdle /\ HookIdle /\ AuthIdle
    /\ probe = <<>>
    /\ edit = <<>>
    /\ submit = [r \in SubmitIds |-> IdleSubmit]
    /\ created = 0

submitUnchanged ==
    <<now, webhooks, forms, users, probe, edit, cronVars, regVars, authVars>>

\* lines 286-293: await Form.findById, the isActive check, JSON.parse of the body
SubmitFindForm(r) ==
    /\ submit[r].pc = "idle"
    /\ \A k \in SubmitIds : k < r => submit[k].pc # "idle"
    /\ \E formId \in {FormId, NoForm}, body \in Bodies :
          submit' = [submit EXCEPT ![r] =
              IF formId \notin DOMAIN formDocs \/ ~formDocs[formId].isActive
              THEN SubmitRespond(@, 404, "not found", "")
              ELSE IF body.kind = "invalid"
              THEN SubmitRespond(@, 500, "error", "")
              ELSE [@ EXCEPT !.pc = "findOwner", !.form = formDocs[formId],
                             !.body = body]]
    /\ UNCHANGED <<formDocs, created, notif, responses>>
    /\ UNCHANGED submitUnchanged

\* lines 296-395: await User.findById, then the validation loop and the
\* mapping loop, which run without an await between them
SubmitFindOwner(r) ==
    /\ submit[r].pc = "findOwner"
    /\ LET rq == submit[r]
           questions == rq.form.questions
           v == ValidateFrom(questions, rq.body.answers, 1, <<>>, <<>>)
           m == MapFrom(questions, rq.body.answers, 1, <<>>)
       IN \/ submit' = [submit EXCEPT ![r] =
                IF OwnerId \notin users
                THEN SubmitRespond(rq, 500, "owner not found", "")
                ELSE IF rq.body.kind = "null" /\ Len(questions) > 0
                THEN SubmitRespond(rq, 500, "error", "")    \* answers[...] of null throws
                ELSE IF ~v.ok
                THEN SubmitRespond([rq EXCEPT !.visible = v.visible], 400,
                                   "required field missing", v.field)
                ELSE IF ~m.ok
                THEN SubmitRespond([rq EXCEPT !.visible = v.visible], 400,
                                   m.reason, m.field)
                ELSE [rq EXCEPT !.pc = "createRecord", !.visible = v.visible,
                                !.fields = m.fields]]
          \/ submit' = [submit EXCEPT ![r] = SubmitRespond(rq, 500, "error", "")]
    /\ UNCHANGED <<formDocs, created, notif, responses>>
    /\ UNCHANGED submitUnchanged

\* mutant of SubmitCreateRecord: a rejected creation is ignored
SubmitCreateRecord_Ignore(r) ==
    /\ submit[r].pc = "createRecord"
    /\ \/ /\ created' = created + 1
          /\ submit' = [submit EXCEPT ![r] =
                [@ EXCEPT !.pc = "saveResponse", !.record = created + 1]]
       \/ /\ submit' = [submit EXCEPT ![r] = [@ EXCEPT !.pc = "saveResponse"]]
          /\ UNCHANGED created
    /\ UNCHANGED <<formDocs, notif, responses>>
    /\ UNCHANGED submitUnchanged

\* lines 398-403: await createRecord(...): Airtable creates a record, or rejects
SubmitCreateRecord(r) ==
    /\ submit[r].pc = "createRecord"
    /\ \/ /\ created' = created + 1
          /\ submit' = [submit EXCEPT ![r] =
                [@ EXCEPT !.pc = "saveResponse", !.record = created + 1]]
       \/ /\ submit' = [submit EXCEPT ![r] = SubmitRespond(@, 500, "error", "")]
          /\ UNCHANGED created
    /\ UNCHANGED <<formDocs, notif, responses>>
    /\ UNCHANGED submitUnchanged

\* lines 406-417: new Response({...}); await response.save()
SubmitSaveResponse(r) ==
    /\ submit[r].pc = "saveResponse"
    /\ \/ /\ responses' = responses @@
                (submit[r].record :>
                    [ResponseDoc(FormId) EXCEPT !.answers = submit[r].body.answers])
          /\ submit' = [submit EXCEPT ![r].pc = "saveForm"]
       \/ /\ submit' = [submit EXCEPT ![r] = SubmitRespond(@, 500, "error", "")]
          /\ UNCHANGED responses
    /\ UNCHANGED <<formDocs, created, notif>>
    /\ UNCHANGED submitUnchanged

\* lines 420-431: the submission count of the loaded form, await form.save(), 201
SubmitSaveForm(r) ==
    /\ submit[r].pc = "saveForm"
    /\ \/ /\ formDocs' = [formDocs EXCEPT ![FormId] =
                [@ EXCEPT !.submissionCount = submit[r].form.submissionCount + 1,
                          !.lastSubmissionAt = now]]
          /\ submit' = [submit EXCEPT ![r] = SubmitRespond(@, 201, "", "")]
       \/ /\ submit' = [submit EXCEPT ![r] = SubmitRespond(@, 500, "error", "")]
          /\ UNCHANGED formDocs
    /\ UNCHANGED <<created, notif, responses>>
    /\ UNCHANGED submitUnchanged

Submit ==
    \/ \E r \in SubmitIds : SubmitFindForm(r)
    \/ \E r \in SubmitIds : SubmitFindOwner(r)
    \/ \E r \in SubmitIds : SubmitCreateRecord(r)
    \/ \E r \in SubmitIds : SubmitSaveResponse(r)
    \/ \E r \in SubmitIds : SubmitSaveForm(r)

SpecSubmit == InitSubmit /\ [][Submit]_vars

\* ------------------------------------------------------- the submit claims
\* the answers of the questions before position i that were visible and given
RECURSIVE SoFar(_, _, _)
SoFar(questions, answers, i) ==
    IF i <= 1 THEN <<>>
    ELSE LET before == SoFar(questions, answers, i - 1)
             question == questions[i - 1]
         IN  IF shouldShowQuestion(question.conditionalRules, before)
             THEN Remember(before, question.questionKey,
                           Lookup(answers, question.questionKey))
             ELSE before

\* the positions of the required questions that are visible against the answers
\* so far and whose answer is missing, null or the empty string
Offenders(questions, answers) ==
    {i \in DOMAIN questions :
        /\ questions[i].required
        /\ shouldShowQuestion(questions[i].conditionalRules, SoFar(questions, answers, i))
        /\ IsMissing(Lookup(answers, questions[i].questionKey))}

\* C11: a submission whose answers parse to an object is rejected for a missing
\* required field only for a question that is required, visible and unanswered,
\* and a submission with such a question is always rejected with that error,
\* naming such a question, and gets no further.
C11_RequiredIffVisible ==
    \A r \in SubmitIds :
        LET rq == submit[r]
            questions == rq.form.questions
            off == Offenders(questions, rq.body.answers)
        IN  (rq.body # <<>> /\ rq.body.kind = "object") =>
              /\ (rq.pc = "done" /\ rq.reason = "required field missing")
                    => /\ rq.status = 400
                       /\ \E i \in off : questions[i].questionKey = rq.field
              /\ off # {}
                    => /\ rq.pc \in {"findOwner", "done"}
                       /\ rq.pc = "done" =>
                            \/ rq.status = 400 /\ rq.reason = "required field missing"
                            \/ rq.status = 500 /\ rq.reason \in {"owner not found", "error"}
                                               /\ rq.visible = <<>>

\* a submission was rejected naming the second question, which is required and
\* unanswered and whose rule holds on the answer to the first
C11_Witness ==
    \E r \in SubmitIds :
        LET rq == submit[r]
        IN  /\ rq.pc = "done" /\ rq.status = 400 /\ rq.field = "k2"
            /\ rq.reason = "required field missing"
            /\ rq.form.questions[2].conditionalRules.defined
            /\ rq.form.questions[2].conditionalRules.conditions[1].questionKey = "k1"
            /\ rq.form.questions[2].conditionalRules.conditions[1].operator = "equals"
            /\ "k1" \in DOMAIN rq.body.answers

\* ------------------------------------------------ claims about POST /refresh
\* the step in which request q is answered 400
RefreshFails(q) ==
    refresh[q].pc # "done" /\ refresh'[q].pc = "done" /\ refresh'[q].status = 400

\* C19: a refresh that fails, because Airtable rejects the exchange or because
\* the credential has no refresh token, tells the caller that reauthorization
\* is required, sends no second exchange, and leaves the stored access token,
\* refresh token and expiry as they were.
C19_FailedRefreshSignalsReauth ==
    [][\A q \in RefreshIds :
          RefreshFails(q) =>
              /\ refresh'[q].requiresReauth
              /\ refresh[q].sent => upstream' = upstream
              /\ creds' = creds]_vars

\* ------------------------- the auth routes: GET /airtable and its callback
CallbackIds == 1..MaxCallbacks
AccountIds == 1..MaxAccounts
NoState == 0
authOthers == <<now, webhooks, forms, users, cronVars, regVars, hookVars, formVars>>

\* what whoami reports as email and as name: absent or empty, or a text
ProfileTexts == {<<>>, <<"A">>}

\* scope ? scope.split(' ') : []
Scopes(scope) == IF scope = <<>> THEN <<>> ELSE <<scope>>

\* the whoami answer, kept whole in profileData
Profile(id, email, name) == [id |-> id, email |-> email, name |-> name]

\* userSchema: a stored User document; the email setter lowercases
User(airtableUserId, email, name, accessToken, refreshToken, tokenExpiresAt, scopes, profileData) ==
    [airtableUserId |-> airtableUserId, email |-> toLowerCase(email), name |-> name,
     accessToken |-> accessToken, refreshToken |-> refreshToken,
     tokenExpiresAt |-> tokenExpiresAt, scopes |-> scopes, profileData |-> profileData]

\* User.findOne({ airtableUserId }): the ids of the documents of an account
FindUsers(account) == {u \in DOMAIN creds : creds[u].airtableUserId = account}

IdleCallback ==
    [pc |-> "idle", state |-> NoState, fromStore |-> FALSE, token |-> [none |-> TRUE],
     airtableUser |-> [none |-> TRUE], tokenExpiresAt |-> 0, id |-> 0, found |-> <<>>,
     user |-> <<>>,
     status |-> 0, location |-> "none"]

\* res.redirect(...) and res.status(400).json(...)
CallbackAnswer(cb, status, location) ==
    [IdleCallback EXCEPT !.pc = "done", !.id = cb.id, !.status = status,
                         !.location = location]

\* lines 502-507: the catch block redirects to login?error=auth_failed
CallbackCatch(cb) == CallbackAnswer(cb, 302, "auth_failed")

\* lines 344-360: GET /airtable stores the verifier under a new state
OAuthStart ==
    /\ states < MaxStates
    /\ states' = states + 1
    /\ pkceStore' = pkceStore \cup {states + 1}
    /\ UNCHANGED <<oauth, creds, refresh, upstream, issued, authOthers>>

\* line 352: setTimeout(() => pkceStore.delete(state), 30 * 60 * 1000)
PkceTimeout ==
    /\ \E state \in pkceStore : pkceStore' = pkceStore \ {state}
    /\ UNCHANGED <<oauth, states, creds, refresh, upstream, issued, authOthers>>

\* the callback and refresh requests received so far
Received ==
    Cardinality({c \in CallbackIds : oauth[c].pc # "idle"})
        + Cardinality({q \in RefreshIds : refresh[q].pc # "idle"})

\* lines 388-422: the query is checked and the verifier is taken from
\* pkceStore, or else from the cookie oauth_state_<state> of the request
CallbackReceive(c) ==
    /\ oauth[c].pc = "idle"
    /\ Received < MaxRequests
    /\ \A k \in CallbackIds : k < c => oauth[k].pc # "idle"
    /\ \E error \in BOOLEAN, code \in BOOLEAN, state \in NoState..MaxStates, cookie \in BOOLEAN :
          IF error
          THEN /\ oauth' = [oauth EXCEPT ![c] = CallbackAnswer(@, 302, "login_error")]
               /\ UNCHANGED pkceStore
          ELSE IF ~code \/ state = NoState
          THEN /\ oauth' = [oauth EXCEPT ![c] = CallbackAnswer(@, 400, "none")]
               /\ UNCHANGED pkceStore
          ELSE IF state \notin pkceStore /\ ~cookie
          THEN /\ oauth' = [oauth EXCEPT ![c] = CallbackCatch(@)]
               /\ UNCHANGED pkceStore
          ELSE /\ oauth' = [oauth EXCEPT ![c] =
                              [@ EXCEPT !.pc = "exchange", !.state = state,
                                        !.fromStore = state \in pkceStore]]
               /\ pkceStore' = pkceStore \ {state}
    /\ UNCHANGED <<states, creds, refresh, upstream, issued, authOthers>>

\* lines 428-448: await axios.post(AIRTABLE_TOKEN_URL, grant_type=authorization_code);
\* the answer to an authorization code carries a refresh token
CallbackExchange(c) ==
    /\ oauth[c].pc = "exchange"
    /\ upstream' = upstream + 1
    /\ \/ \E refresh_token \in {upstream + 2}, expires_in \in 1..MaxExpiresIn,
            scope \in {<<>>, <<"s">>} :
            oauth' = [oauth EXCEPT ![c] =
                        [@ EXCEPT !.pc = "whoami",
                                  !.token = [access_token |-> upstream + 2,
                                             refresh_token |-> refresh_token,
                                             expires_in |-> expires_in, scope |-> scope]]]
       \/ oauth' = [oauth EXCEPT ![c] = CallbackCatch(@)]
    /\ UNCHANGED <<pkceStore, states, creds, refresh, issued, authOthers>>

\* lines 451-459: await axios.get(whoami), then
\* tokenExpiresAt = new Date(Date.now() + expires_in * 1000)
CallbackWhoami(c) ==
    /\ oauth[c].pc = "whoami"
    /\ \/ /\ \E id \in AccountIds, email \in ProfileTexts, name \in ProfileTexts :
               oauth' = [oauth EXCEPT ![c] =
                           [@ EXCEPT !.pc = "findOne",
                                     !.airtableUser = Profile(id, email, name),
                                     !.tokenExpiresAt = now + oauth[c].token.expires_in]]
          /\ issued' = issued @@ (oauth[c].token.access_token :>
                                    (now + oauth[c].token.expires_in))
       \/ /\ oauth' = [oauth EXCEPT ![c] = CallbackCatch(@)]
          /\ UNCHANGED issued
    /\ UNCHANGED <<pkceStore, states, creds, refresh, upstream, authOthers>>

\* lines 463-470: the found user takes the tokens, the scopes and the profile;
\* email and name only when whoami reports them
CallbackUpdate_Blank(user, token, airtableUser, tokenExpiresAt) ==
    LET u1 == SetPath(user, "accessToken", token.access_token)
        u2 == SetPath(u1, "refreshToken", token.refresh_token)
        u3 == SetPath(u2, "tokenExpiresAt", tokenExpiresAt)
        u4 == SetPath(u3, "scopes", Scopes(token.scope))
        u5 == SetPath(u4, "email", toLowerCase(airtableUser.email))
        u6 == SetPath(u5, "name", airtableUser.name)
    IN SetPath(u6, "profileData", airtableUser)

CallbackUpdate(user, token, airtableUser, tokenExpiresAt) ==
    LET u1 == SetPath(user, "accessToken", token.access_token)
        u2 == SetPath(u1, "refreshToken", token.refresh_token)
        u3 == SetPath(u2, "tokenExpiresAt", tokenExpiresAt)
        u4 == SetPath(u3, "scopes", Scopes(token.scope))
        u5 == SetPath(u4, "email", IF airtableUser.email # <<>>
                                   THEN toLowerCase(airtableUser.email) ELSE user.email)
        u6 == SetPath(u5, "name", IF airtableUser.name # <<>>
                                  THEN airtableUser.name ELSE user.name)
    IN SetPath(u6, "profileData", airtableUser)

\* lines 471-482: new User({...})
CallbackCreate(token, airtableUser, tokenExpiresAt) ==
    User(airtableUser.id, airtableUser.email, airtableUser.name, token.access_token,
         token.refresh_token, tokenExpiresAt, Scopes(token.scope), airtableUser)

\* lines 461-482: await User.findOne({ airtableUserId: airtableUser.id }), then
\* the found document is updated in memory or a new one is built
CallbackFindOne(c) ==
    /\ oauth[c].pc = "findOne"
    /\ LET cb == oauth[c]
           found == FindUsers(cb.airtableUser.id)
       IN \/ /\ found # {}
             /\ \E u \in found :
                  oauth' = [oauth EXCEPT ![c] =
                     [@ EXCEPT !.pc = "save", !.id = u, !.found = creds[u],
                               !.user = CallbackUpdate(creds[u] @@ [dirty |-> {}], cb.token,
                                                       cb.airtableUser, cb.tokenExpiresAt)]]
          \/ /\ found = {}
             /\ oauth' = [oauth EXCEPT ![c] =
                     [@ EXCEPT !.pc = "save", !.id = 0,
                               !.user = CallbackCreate(cb.token, cb.airtableUser,
                                                       cb.tokenExpiresAt)]]
          \/ oauth' = [oauth EXCEPT ![c] = CallbackCatch(@)]
    /\ UNCHANGED <<pkceStore, states, creds, refresh, upstream, issued, authOthers>>

\* the unique index on airtableUserId lets an insert through only when no
\* stored document has the account
InsertAllowed(account) == FindUsers(account) = {}

\* lines 484-500: await user.save(), then the token cookie and the redirect
CallbackSave(c) ==
    /\ oauth[c].pc = "save"
    /\ LET cb == oauth[c]
           newId == Cardinality(DOMAIN creds) + 1
       IN \/ /\ cb.id # 0
             /\ creds' = [creds EXCEPT ![cb.id] = Persist(@, cb.user)]
             /\ oauth' = [oauth EXCEPT ![c] = CallbackAnswer(@, 302, "callback")]
          \/ /\ cb.id = 0
             /\ InsertAllowed(cb.user.airtableUserId)
             /\ creds' = creds @@ (newId :> cb.user)
             /\ oauth' = [oauth EXCEPT ![c] =
                            CallbackAnswer([@ EXCEPT !.id = newId], 302, "callback")]
          \/ /\ oauth' = [oauth EXCEPT ![c] = CallbackCatch(@)]
             /\ UNCHANGED creds
    /\ UNCHANGED <<pkceStore, states, refresh, upstream, issued, authOthers>>

\* No account is known yet, or the owner has signed in before
InitAuth ==
    /\ now = StartNow
    /\ forms = WIds
    /\ users = {OwnerId}
    /\ webhooks = <<>>
    /\ sweep = [s \in SweepIds |-> IdleSweep]
    /\ lastTick = StartNow
    /\ streak = <<>>
    /\ creds \in {<<>>,
                  OwnerId :> User(1, <<"a">>, <<"A">>, 1, 1, StartNow + 1, <<>>,
                                  Profile(1, <<"a">>, <<"A">>))}
    /\ refresh = [q \in RefreshIds |-> IdleRefresh]
    /\ upstream = 0
    /\ oauth = [c \in CallbackIds |-> IdleCallback]
    /\ pkceStore = {}
    /\ states = 0
    /\ issued = [t \in {creds[u].accessToken : u \in DOMAIN creds} |-> StartNow + 1]
    /\ RegIdle /\ HookIdle /\ FormIdle

\* POST /refresh while callbacks are served
AuthRefreshStart(q) == Received < MaxRequests /\ RefreshStart(q)

Auth ==
    \/ OAuthStart
    \/ PkceTimeout
    \/ \E c \in CallbackIds : CallbackReceive(c)
    \/ \E c \in CallbackIds : CallbackExchange(c)
    \/ \E c \in CallbackIds : CallbackWhoami(c)
    \/ \E c \in CallbackIds : CallbackFindOne(c)
    \/ \E c \in CallbackIds : CallbackSave(c)
    \/ \E q \in RefreshIds : AuthRefreshStart(q)
    \/ \E q \in RefreshIds : RefreshExchange(q)
    \/ \E q \in RefreshIds : RefreshSave(q)

SpecAuth == InitAuth /\ [][Auth]_vars

\* ------------------------------------------------ claims about the callback
\* the step in which callback c saves its user and redirects with the token
CallbackSaved(c) ==
    oauth[c].pc = "save" /\ oauth'[c].pc = "done" /\ oauth'[c].location = "callback"

\* the document a callback leaves for a known account: tokens, scopes and
\* profile from this callback, email and name only when whoami reports them
Overwritten(old, cb) ==
    [old EXCEPT !.accessToken = cb.token.access_token,
                !.refreshToken = cb.token.refresh_token,
                !.tokenExpiresAt = cb.tokenExpiresAt,
                !.scopes = Scopes(cb.token.scope),
                !.profileData = cb.airtableUser,
                !.email = IF cb.airtableUser.email # <<>>
                          THEN toLowerCase(cb.airtableUser.email) ELSE old.email,
                !.name = IF cb.airtableUser.name # <<>>
                         THEN cb.airtableUser.name ELSE old.name]

\* C18: no two stored credentials have the same Airtable account id; a callback
\* that saves for an account whose credential is stored as the callback found
\* it overwrites that credential in place, keeping the old email and name when
\* whoami reports none; a credential is added only by a callback whose
\* account has no stored credential, and that callback adds exactly one.
C18_OneCredentialPerAccount ==
    [][/\ \A u1, u2 \in DOMAIN creds' :
            creds'[u1].airtableUserId = creds'[u2].airtableUserId => u1 = u2
       /\ \A c \in CallbackIds :
            CallbackSaved(c) =>
               LET cb == oauth[c]
                   known == FindUsers(cb.airtableUser.id)
               IN /\ \E u \in DOMAIN creds' : creds'[u].airtableUserId = cb.airtableUser.id
                  /\ \A u \in DOMAIN creds \ known : creds'[u] = creds[u]
                  /\ known # {} => DOMAIN creds' = DOMAIN creds
                  /\ \A u \in known :
                        creds[u] = cb.found => creds'[u] = Overwritten(creds[u], cb)
                  /\ known = {} => Cardinality(DOMAIN creds') = Cardinality(DOMAIN creds) + 1
       /\ DOMAIN creds' # DOMAIN creds =>
            \E c \in CallbackIds : CallbackSaved(c) /\ FindUsers(oauth[c].airtableUser.id) = {}]_vars

\* one callback has added the credential of an unknown account, and another has
\* overwritten the owner's credential in place while whoami reported no email
C18_Witness ==
    /\ \A c \in CallbackIds : oauth[c].pc = "done" /\ oauth[c].location = "callback"
    /\ DOMAIN creds = {OwnerId, OwnerId + 1}
    /\ creds[OwnerId].accessToken # 1
    /\ creds[OwnerId].profileData.email = <<>>
    /\ creds[OwnerId].email = <<"a">>

\* C20: every stored credential holds the expiry that was computed from the
\* token exchange that issued its stored access token, whatever callbacks and
\* refreshes have run and however their steps were interleaved.
C20_ExpiryOfHeldToken ==
    \A u \in DOMAIN creds : creds[u].tokenExpiresAt = issued[creds[u].accessToken]

\* ------------------------------------------- more claims about POST /airtable
\* handler h takes a step
Steps(h) == notif'[h] # notif[h]

\* C22: a notification whose webhook id matches no stored subscription is
\* answered 200 and neither the subscriptions nor the stored responses change.
C22_UnknownDiscarded ==
    [][\A h \in HandlerIds :
          (notif[h].pc = "findWebhook" /\ notif[h].hook \notin DOMAIN webhooks /\ Steps(h)) =>
              /\ notif'[h].pc = "done" /\ notif'[h].status = 200
              /\ webhooks' = webhooks
              /\ responses' = responses]_vars

\* a notification for an unknown webhook id was answered without any failure
C22_Witness ==
    \E h \in HandlerIds :
        /\ notif[h].pc = "done" /\ notif[h].hook = UnknownHook
        /\ notif[h].status = 200 /\ ~notif[h].logged

\* C23: the stored cursor of a subscription never decreases, whatever
\* notifications arrive and in whatever order.
C23_CursorMonotonic ==
    [][\A w \in DOMAIN webhooks : webhooks'[w].cursor >= webhooks[w].cursor]_vars

\* C24: after a lookup or a save for one record, failed or not, the handler
\* goes on to the next listed record, and answers only after the last one.
C24_RecordsIsolated ==
    [][\A h \in HandlerIds :
          (notif[h].pc \in {"findResponse", "saveResponse"} /\ Steps(h)) =>
              \/ /\ notif[h].pc = "findResponse" /\ notif'[h].pc = "saveResponse"
                 /\ notif'[h].i = notif[h].i
              \/ notif'[h].pc = "findResponse" /\ notif'[h].i = notif[h].i + 1
              \/ notif'[h].pc = "done" /\ notif[h].i = Len(notif[h].items)]_vars

\* the first listed record has failed and the second one is being saved
C24_Witness ==
    \E h \in HandlerIds :
        notif[h].pc = "saveResponse" /\ notif[h].logged /\ notif[h].i = 2

\* ------------------------------------------------ more claims about submit
\* the positions of the select questions whose answer is supplied and is not
\* made of declared options
BadSelects(questions, answers) ==
    {i \in DOMAIN questions :
        LET answer == Lookup(answers, questions[i].questionKey)
            declared(v) == \E j \in DOMAIN questions[i].options : questions[i].options[j] = v
        IN  /\ answer \notin {Undefined, Null}
            /\ \/ questions[i].type = "singleSelect" /\ ~declared(answer)
               \/ /\ questions[i].type = "multipleSelects"
                  /\ \/ answer.t # "array"
                     \/ \E j \in DOMAIN answer.v : ~declared(answer.v[j])}

\* the request has got past validation and mapping
Mapped(rq) ==
    rq.pc \in {"createRecord", "saveResponse", "saveForm"}
        \/ (rq.pc = "done" /\ rq.status = 201)

C26_OnlyVisibleMapped ==
    \A r \in SubmitIds :
        Mapped(submit[r]) =>
            \A key \in DOMAIN submit[r].fields :
                \E k \in DOMAIN submit[r].visible : submit[r].visible[k] = key

\* ------------------------------------------------ claims about the PKCE store
\* C27: a callback goes on to the token exchange only with a state that is
\* still in the store, that is, one that no earlier callback has used and
\* whose timeout has not fired.
C27_StateUsedOnce ==
    [][\A c \in CallbackIds :
          (oauth[c].pc = "idle" /\ oauth'[c].pc = "exchange") =>
              oauth'[c].state \in pkceStore]_vars

\* ------------------------------------------------ more claims about the sweep
\* C30: whenever a sweep changes a stored subscription, the new state is the
\* renewed one (lastPingAt moved up to the time of the renewal, errorCount = 0,
\* lastError as before) or the failed one (lastPingAt as before, errorCount one
\* higher, lastError set).
C30_RenewedOrFailed ==
    [][\A w \in DOMAIN webhooks :
          webhooks'[w] # webhooks[w] =>
              \/ /\ webhooks'[w].lastPingAt > webhooks[w].lastPingAt
                 /\ webhooks'[w].lastPingAt <= now
                 /\ webhooks'[w].errorCount = 0
                 /\ webhooks'[w].lastError = webhooks[w].lastError
              \/ /\ webhooks'[w].lastPingAt = webhooks[w].lastPingAt
                 /\ webhooks'[w].errorCount = webhooks[w].errorCount + 1
                 /\ webhooks'[w].lastError # NoError]_vars

\* ------------------------------------- routes/webhooks.js: DELETE /:webhookId
UnregIds == 1..MaxUnregisters

IdleUnregister == [pc |-> "idle", hook |-> NoWebhook, doc |-> <<>>, deleteFailed |-> FALSE,
                   status |-> 0]

\* res.json / next(error): the request is answered
UnregisterRespond(rq, status) == [rq EXCEPT !.pc = "done", !.doc = <<>>, !.status = status]

\* mutant of AfterDelete: a rejected deleteWebhook ends the request with an error
AfterDelete_Propagate(rq, failed) ==
    IF failed THEN UnregisterRespond([rq EXCEPT !.deleteFailed = TRUE], 500)
    ELSE [rq EXCEPT !.pc = "save", !.doc = SetPath(@, "isActive", FALSE)]

\* lines 264-276: the rejection of deleteWebhook is caught and logged, then
\* webhook.isActive = false
AfterDelete(rq, failed) ==
    [rq EXCEPT !.pc = "save", !.deleteFailed = failed,
               !.doc = SetPath(@, "isActive", FALSE)]

\* lines 248-257: await Webhook.findById(...).populate('formId'), then the
\* ownership check, which reads the populated form
UnregisterFind(u) ==
    /\ unreg[u].pc = "idle"
    /\ \A k \in UnregIds : k < u => unreg[k].pc # "idle"
    /\ \E hook \in DOMAIN webhooks \cup {NoWebhook}, userId \in {OwnerId, OtherUser} :
          unreg' = [unreg EXCEPT ![u] =
              IF hook \notin DOMAIN webhooks THEN UnregisterRespond(@, 404)
              ELSE IF webhooks[hook].formId \notin forms
              THEN UnregisterRespond(@, 500)          \* ownerId of null throws
              ELSE IF userId # OwnerId THEN UnregisterRespond(@, 403)
              ELSE [@ EXCEPT !.pc = "findUser", !.hook = hook,
                             !.doc = webhooks[hook] @@ [dirty |-> {}]]]
    /\ UNCHANGED <<now, webhooks, forms, users, reg, airtable, cronVars, hookVars,
                   authVars, formVars>>

\* lines 259-262: await User.findById(webhook.formId.ownerId)
UnregisterFindUser(u) ==
    /\ unreg[u].pc = "findUser"
    /\ unreg' = [unreg EXCEPT ![u] =
          IF OwnerId \in users THEN [@ EXCEPT !.pc = "delete"]
          ELSE UnregisterRespond(@, 500)]
    /\ UNCHANGED <<now, webhooks, forms, users, reg, airtable, cronVars, hookVars,
                   authVars, formVars>>

\* lines 264-276: await deleteWebhook(...), resolved or rejected by Airtable
UnregisterDelete(u) ==
    /\ unreg[u].pc = "delete"
    /\ \E failed \in BOOLEAN : unreg' = [unreg EXCEPT ![u] = AfterDelete(@, failed)]
    /\ UNCHANGED <<now, webhooks, forms, users, reg, airtable, cronVars, hookVars,
                   authVars, formVars>>

\* lines 277-282: await webhook.save(), then the answer
UnregisterSave(u) ==
    /\ unreg[u].pc = "save"
    /\ \/ /\ webhooks' = [webhooks EXCEPT ![unreg[u].hook] = Persist(@, unreg[u].doc)]
          /\ unreg' = [unreg EXCEPT ![u] = UnregisterRespond(@, 200)]
       \/ /\ unreg' = [unreg EXCEPT ![u] = UnregisterRespond(@, 500)]
          /\ UNCHANGED webhooks
    /\ UNCHANGED <<now, forms, users, reg, airtable, cronVars, hookVars, authVars, formVars>>

\* ------------------------------------------- the life of a subscription
\* the requests and sweeps that are being served
Busy ==
    Cardinality({s \in SweepIds : Running(s)})
      + Cardinality({r \in RegIds : reg[r].pc \notin {"idle", "done"}})
      + Cardinality({h \in HandlerIds : notif[h].pc \notin {"idle", "done"}})
      + Cardinality({u \in UnregIds : unreg[u].pc \notin {"idle", "done"}})

\* the register, notification and unregister requests received so far; a
\* notification, which brings a whole payload, counts twice
LifeReceived ==
    Cardinality({r \in RegIds : reg[r].pc # "idle"})
      + 2 * Cardinality({h \in HandlerIds : notif[h].pc # "idle"})
      + Cardinality({u \in UnregIds : unreg[u].pc # "idle"})

LifeOpen == Busy < MaxBusy /\ LifeReceived < MaxLifeRequests

LifeCronFire(s) == Busy < MaxBusy /\ CronFire(s)
LifeRegisterFindForm(r) == LifeOpen /\ RegisterFindForm(r)
LifeNotifyReceive(h) == LifeOpen /\ LifeReceived + 1 < MaxLifeRequests /\ NotifyReceive(h)
LifeUnregisterFind(u) == LifeOpen /\ UnregisterFind(u)

\* One form has a subscription registered 7 days ago, with no error or with two
\* recorded errors; sweeps, registers, notifications and unregisters follow
InitLife ==
    /\ now = StartNow
    /\ forms = {1}
    /\ users = {OwnerId}
    /\ webhooks \in [{HookId} -> {WebhookDoc(1, StartNow - 7, TRUE, e) : e \in {0, MaxErrors - 1}}]
    /\ sweep = [s \in SweepIds |-> IdleSweep]
    /\ lastTick = StartNow - 1
    /\ streak = [w \in DOMAIN webhooks |-> webhooks[w].errorCount]
    /\ reg = [r \in RegIds |-> IdleRegister]
    /\ airtable = 1
    /\ unreg = [u \in UnregIds |-> IdleUnregister]
    /\ notif = [h \in HandlerIds |-> IdleHandler]
    /\ responses = [k \in {1} |-> ResponseDoc(1)]
    /\ AuthIdle /\ FormIdle

Life ==
    \/ Tick
    \/ \E s \in SweepIds : LifeCronFire(s)
    \/ \E s \in SweepIds : SweepLoadOwner(s)
    \/ \E s \in SweepIds : SweepRenew(s)
    \/ \E s \in SweepIds : SweepSave(s)
    \/ \E s \in SweepIds : SweepSaveError(s)
    \/ \E r \in RegIds : LifeRegisterFindForm(r)
    \/ \E r \in RegIds : RegisterFindWebhook(r)
    \/ \E r \in RegIds : RegisterFindUser(r)
    \/ \E r \in RegIds : RegisterCreate(r)
    \/ \E r \in RegIds : RegisterSave(r)
    \/ \E h \in HandlerIds : LifeNotifyReceive(h)
    \/ \E h \in HandlerIds : NotifyFindWebhook(h)
    \/ \E h \in HandlerIds : NotifySaveWebhook(h)
    \/ \E h \in HandlerIds : NotifyFindResponse(h)
    \/ \E h \in HandlerIds : NotifySaveResponse(h)
    \/ \E u \in UnregIds : LifeUnregisterFind(u)
    \/ \E u \in UnregIds : UnregisterFindUser(u)
    \/ \E u \in UnregIds : UnregisterDelete(u)
    \/ \E u \in UnregIds : UnregisterSave(u)

SpecLife == InitLife /\ [][Life]_vars

\* ------------------------------------- claims about the life of a subscription
\* C21: whether deleteWebhook resolves or rejects, unregister goes on to save
\* the subscription with isActive false, and an unregister answered 200 leaves
\* the stored subscription inactive.
C21_UnregisterRetires ==
    [][\A u \in UnregIds :
          /\ (unreg[u].pc = "delete" /\ unreg'[u] # unreg[u])
                => unreg'[u].pc = "save" /\ ~unreg'[u].doc.isActive
          /\ (unreg[u].pc = "save" /\ unreg'[u].pc = "done" /\ unreg'[u].status = 200)
                => ~webhooks'[unreg[u].hook].isActive]_vars

\* an unregister whose deleteWebhook was rejected has answered 200 and the
\* subscription is inactive
C21_Witness ==
    \E u \in UnregIds :
        /\ unreg[u].pc = "done" /\ unreg[u].status = 200 /\ unreg[u].deleteFailed
        /\ ~webhooks[unreg[u].hook].isActive

\* C29: no step removes a subscription or turns an inactive one active again;
\* a sweep's query selects active subscriptions only, so that no sweep starting
\* after a retirement renews the retired subscription; and a register that
\* answers 201 has added a new active subscription and changed no other.
C29_RetiredForGood ==
    [][/\ \A w \in DOMAIN webhooks :
            /\ w \in DOMAIN webhooks'
            /\ ~webhooks[w].isActive => ~webhooks'[w].isActive
       /\ \A s \in SweepIds :
            (lastTick' # lastTick /\ sweep'[s] # sweep[s]) =>
                \A w \in Range(sweep'[s].queue) : webhooks[w].isActive
       /\ \A r \in RegIds :
            (reg[r].pc = "save" /\ reg'[r].pc = "done" /\ reg'[r].status = 201) =>
                /\ reg'[r].data \notin DOMAIN webhooks
                /\ DOMAIN webhooks' = DOMAIN webhooks \cup {reg'[r].data}
                /\ webhooks'[reg'[r].data].isActive
                /\ \A w \in DOMAIN webhooks : webhooks'[w] = webhooks[w]]_vars

\* the first subscription is retired, a sweep of a later day has selected
\* nothing, and a register has added a new active subscription for the form
C29_Witness ==
    /\ ~webhooks[HookId].isActive
    /\ \E w \in DOMAIN webhooks \ {HookId} :
          webhooks[w].isActive /\ webhooks[w].formId = webhooks[HookId].formId
    /\ \E s \in SweepIds :
          /\ sweep[s].pc = "done" /\ sweep[s].outcome = "completed"
          /\ sweep[s].queue = <<>> /\ lastTick > StartNow

\* --------------------------------------- POST / and PUT /:formId (forms.js)
\* In these requests a question key is a text, as are the keys the conditions
\* name, so that the trim setter of questionSchema.questionKey is computed.
EditIds == 1..MaxEdits
Blank == " "
KeyTexts == {<<"a">>, <<"a", Blank>>, <<"b">>, <<>>}

RECURSIVE trimStart(_)
trimStart(s) == IF Len(s) > 0 /\ s[1] = Blank THEN trimStart(Tail(s)) ELSE s
RECURSIVE trimEnd(_)
trimEnd(s) ==
    IF Len(s) > 0 /\ s[Len(s)] = Blank THEN trimEnd(SubSeq(s, 1, Len(s) - 1)) ELSE s
\* String.prototype.trim, the setter of a path declared with trim: true
trim(s) == trimEnd(trimStart(s))

\* req.body.questions[k]: the fields the two routes and the schema check; the
\* other required fields are given
EditRules ==
    {NoRules, RulesWithoutConditions("XOR")} \cup
    {Rules("AND", <<Condition(key, "equals", Str(<<"a">>))>>) : key \in KeyTexts \ {<<>>}}
EditQuestion(key, type, rules) ==
    [questionKey |-> key, type |-> type, conditionalRules |-> rules]
EditQuestions(type) ==
    UNION {{[k \in 1..n |-> EditQuestion(ks[k], type, rs[k])] :
              ks \in [1..n -> KeyTexts], rs \in [1..n -> EditRules]} :
            n \in 0..MaxQuestions}
\* a type of the enum of questionSchema.type, and one that only the route's
\* validator lists
EditTypes == {"singleLineText", "number"}
SchemaTypes ==
    {"singleLineText", "multilineText", "singleSelect", "multipleSelects",
     "multipleAttachments"}

\* req.body: questions and isActive, each given or not
EditBody(hasQuestions, questions, hasActive, isActive) ==
    [hasQuestions |-> hasQuestions, questions |-> questions,
     hasActive |-> hasActive, isActive |-> isActive]
EditBodies ==
    {EditBody(TRUE, q, FALSE, TRUE) : q \in UNION {EditQuestions(t) : t \in EditTypes}}
    \cup {EditBody(FALSE, <<>>, TRUE, a) : a \in BOOLEAN}
    \cup {EditBody(TRUE, <<EditQuestion(<<"a">>, "singleLineText", NoRules)>>, TRUE, FALSE)}

\* casting by questionSchema: questionKey is trimmed, a condition's questionKey
\* is not; conditions of a rules object default to an empty array
CastQuestion(question) ==
    [question EXCEPT
        !.questionKey = trim(@),
        !.conditionalRules = IF @.defined THEN [@ EXCEPT !.hasConditions = TRUE] ELSE @]
CastQuestions(questions) == [k \in DOMAIN questions |-> CastQuestion(questions[k])]

\* validation on save: the required and enum paths of the three schemas
SchemaValid(questions) ==
    \A k \in DOMAIN questions :
        /\ questions[k].questionKey # <<>>
        /\ questions[k].type \in SchemaTypes
        /\ LET rules == questions[k].conditionalRules
           IN  rules.defined =>
                  /\ rules.logic \in ValidLogic
                  /\ \A c \in DOMAIN rules.conditions :
                        /\ rules.conditions[c].questionKey # <<>>
                        /\ rules.conditions[c].operator \in ValidOperators

\* formSchema.pre('save'): question keys must be unique within a form
UniqueKeys(questions) ==
    \A j, k \in DOMAIN questions : questions[j].questionKey = questions[k].questionKey => j = k

\* the checks of the route on the request's questions, as given
RulesAccepted(questions) ==
    validateConditionalRules([k \in DOMAIN questions |->
        Question(questions[k].questionKey, questions[k].conditionalRules)]).isValid

\* formSchema: the owner, the questions and isActive
OwnedForm(ownerId, questions, isActive) ==
    FormDoc(questions, isActive) @@ [ownerId |-> ownerId]

IdleEdit ==
    [pc |-> "idle", route |-> "", userId |-> 0, formId |-> NoForm, doc |-> <<>>,
     status |-> 0]
EditRespond(rq, status) == [rq EXCEPT !.pc = "done", !.doc = <<>>, !.status = status]

editUnchanged ==
    <<now, webhooks, users, probe, submit, created, cronVars, regVars, hookVars, authVars>>

\* lines 36-89: the validators of POST /, the field-type check (the function is
\* not among the sources: either answer), validateConditionalRules, new Form
CreateReceive(e) ==
    /\ edit[e].pc = "idle"
    /\ \A k \in EditIds : k < e => edit[k].pc # "idle"
    /\ \E userId \in {OwnerId, OtherUser}, body \in EditBodies, unsupported \in BOOLEAN :
          /\ body.hasQuestions /\ ~body.hasActive
          /\ edit' = [edit EXCEPT ![e] =
                LET questions == body.questions
                    rq == [@ EXCEPT !.route = "create", !.userId = userId]
                IN  IF Len(questions) < 1
                       \/ \E k \in DOMAIN questions : questions[k].questionKey = <<>>
                    THEN EditRespond(rq, 400)
                    ELSE IF unsupported THEN EditRespond(rq, 400)
                    ELSE IF ~RulesAccepted(questions) THEN EditRespond(rq, 400)
                    ELSE [rq EXCEPT
                            !.pc = "save",
                            !.doc = OwnedForm(userId, CastQuestions(questions), TRUE)]]
    /\ UNCHANGED <<forms, formDocs>>
    /\ UNCHANGED editUnchanged

\* lines 91-100: await form.save() of the new form, then 201 or next(error)
CreateSave(e) ==
    /\ edit[e].pc = "save" /\ edit[e].route = "create"
    /\ LET doc == edit[e].doc
           formId == Cardinality(DOMAIN formDocs) + 1
       IN  \/ /\ SchemaValid(doc.questions) /\ UniqueKeys(doc.questions)
              /\ formDocs' = formDocs @@ (formId :> doc)
              /\ forms' = forms \cup {formId}
              /\ edit' = [edit EXCEPT ![e] = EditRespond(@, 201)]
           \/ /\ edit' = [edit EXCEPT ![e] = EditRespond(@, 500)]
              /\ UNCHANGED <<forms, formDocs>>
    /\ UNCHANGED editUnchanged

\* lines 182-211: await Form.findById, the ownership check, the assignment of
\* the allowed fields, validateConditionalRules on req.body.questions
UpdateFind(e) ==
    /\ edit[e].pc = "idle"
    /\ \A k \in EditIds : k < e => edit[k].pc # "idle"
    /\ \E userId \in {OwnerId, OtherUser}, formId \in DOMAIN formDocs \cup {NoForm},
          body \in EditBodies :
          edit' = [edit EXCEPT ![e] =
              LET rq == [@ EXCEPT !.route = "update", !.userId = userId]
              IN  IF formId \notin DOMAIN formDocs THEN EditRespond(rq, 404)
                  ELSE IF formDocs[formId].ownerId # userId THEN EditRespond(rq, 403)
                  ELSE IF body.hasQuestions /\ ~RulesAccepted(body.questions)
                  THEN EditRespond(rq, 400)
                  ELSE LET loaded == formDocs[formId] @@ [dirty |-> {}]
                           asked == IF body.hasQuestions
                                    THEN SetPath(loaded, "questions",
                                                 CastQuestions(body.questions))
                                    ELSE loaded
                           active == IF body.hasActive
                                     THEN SetPath(asked, "isActive", body.isActive)
                                     ELSE asked
                       IN  [rq EXCEPT !.pc = "save", !.formId = formId, !.doc = active]]
    /\ UNCHANGED <<forms, formDocs>>
    /\ UNCHANGED editUnchanged

\* lines 213-223: await form.save() of the loaded form, then 200 or next(error)
UpdateSave(e) ==
    /\ edit[e].pc = "save" /\ edit[e].route = "update"
    /\ LET doc == edit[e].doc
       IN  \/ /\ SchemaValid(doc.questions) /\ UniqueKeys(doc.questions)
              /\ formDocs' = [formDocs EXCEPT ![edit[e].formId] = Persist(@, doc)]
              /\ edit' = [edit EXCEPT ![e] = EditRespond(@, 200)]
           \/ /\ edit' = [edit EXCEPT ![e] = EditRespond(@, 500)]
              /\ UNCHANGED formDocs
    /\ UNCHANGED forms
    /\ UNCHANGED editUnchanged

\* no form is stored; the requests are to come
InitForms ==
    /\ now = StartNow
    /\ forms = {}
    /\ users = {OwnerId, OtherUser}
    /\ webhooks = <<>>
    /\ sweep = [s \in SweepIds |-> IdleSweep]
    /\ lastTick = StartNow
    /\ streak = <<>>
    /\ RegIdle /\ HookIdle /\ AuthIdle
    /\ probe = <<>> /\ submit = <<>> /\ created = 0
    /\ formDocs = <<>>
    /\ edit = [e \in EditIds |-> IdleEdit]

Forms ==
    \/ \E e \in EditIds : CreateReceive(e)
    \/ \E e \in EditIds : CreateSave(e)
    \/ \E e \in EditIds : UpdateFind(e)
    \/ \E e \in EditIds : UpdateSave(e)

SpecForms == InitForms /\ [][Forms]_vars

\* ------------------------------------------- claims about the stored forms
\* the conditions of the questions of a stored form name a key of a question
\* of that form, and not the key of their own question
Resolved(doc) ==
    LET questionKeys == {doc.questions[k].questionKey : k \in DOMAIN doc.questions}
    IN  \A k \in DOMAIN doc.questions :
            \A c \in DOMAIN doc.questions[k].conditionalRules.conditions :
                LET target == doc.questions[k].conditionalRules.conditions[c].questionKey
                IN  target \in questionKeys /\ target # doc.questions[k].questionKey

\* C28: after every step of a create or an update, each stored form's
\* conditions name a key of one of its questions and not the key of their own
\* question; a step that answers 400 leaves the stored forms as they were.
C28_StoredRulesResolve ==
    [][/\ \A f \in DOMAIN formDocs' : Resolved(formDocs'[f])
       /\ \A e \in EditIds :
            (edit[e].pc # "done" /\ edit'[e].pc = "done" /\ edit'[e].status = 400)
                => formDocs' = formDocs]_vars

\* ------------------------------------------ the sweep and the owner's token
\* One form has a subscription registered 7 days ago; its owner's credential
\* is expired, or expires in a day, or outlasts the run; sweeps and POST /refresh
\* requests follow
InitRenewal ==
    /\ now = StartNow
    /\ forms = {1}
    /\ users = {OwnerId}
    /\ webhooks = [w \in {HookId} |-> WebhookDoc(1, StartNow - 7, TRUE, 0)]
    /\ sweep = [s \in SweepIds |-> IdleSweep]
    /\ lastTick = StartNow - 1
    /\ streak = [w \in DOMAIN webhooks |-> 0]
    /\ creds \in [{OwnerId} -> {Credential(1, e) : e \in {StartNow - 1, StartNow + 1, MaxNow + 1}}]
    /\ refresh = [q \in RefreshIds |-> IdleRefresh]
    /\ upstream = 0
    /\ OAuthIdle
    /\ issued = [t \in {creds[OwnerId].accessToken} |-> creds[OwnerId].tokenExpiresAt]
    /\ RegIdle /\ HookIdle /\ FormIdle

\* the sweeps and refresh requests that are being served
RenewalBusy ==
    Cardinality({s \in SweepIds : Running(s)})
      + Cardinality({q \in RefreshIds : RefreshInFlight(q)})
RenewalTick == now < StartNow + MaxElapsed /\ Tick
RenewalCronFire(s) == RenewalBusy < MaxBusy /\ CronFire(s)
RenewalRefreshStart(q) == RenewalBusy < MaxBusy /\ RefreshStart(q)

Renewal ==
    \/ RenewalTick
    \/ \E s \in SweepIds : RenewalCronFire(s)
    \/ \E s \in SweepIds : SweepLoadOwner(s)
    \/ \E s \in SweepIds : SweepRenew(s)
    \/ \E s \in SweepIds : SweepSave(s)
    \/ \E s \in SweepIds : SweepSaveError(s)
    \/ \E q \in RefreshIds : RenewalRefreshStart(q)
    \/ \E q \in RefreshIds : RefreshExchange(q)
    \/ \E q \in RefreshIds : RefreshSave(q)

SpecRenewal == InitRenewal /\ [][Renewal]_vars

\* C31: whenever the sweep sends a renewal (line 34), the access token it
\* passes is that of a credential whose expiry has not passed.
C31_RenewsWithValidToken ==
    [][\A s \in SweepIds :
          (sweep[s].pc = "loop" /\ sweep'[s].pc = "renew")
              => ~isTokenExpired(sweep'[s].user, now)]_vars

\* --------------------------------- claims about what a notification modifies
\* the entry a handler is at, and whether a stored response matches it
Item(h) == notif[h].items[notif[h].i]
Matches(h) ==
    /\ Item(h).rec \in DOMAIN responses
    /\ responses[Item(h).rec].formId = notif[h].doc.formId

\* C32: a handler at a changed-record entry modifies no response when no stored
\* response matches the entry or the entry has no current value; for a matching
\* response and an entry with a current value it saves lastSyncedAt and leaves
\* the answers, the deleted flag and every other response as they were.
C32_ChangedOnlyStamps ==
    [][\A h \in HandlerIds :
          (/\ notif[h].pc \in {"findResponse", "saveResponse"}
           /\ notif'[h] # notif[h]
           /\ Item(h).op = "changed")
          => /\ (notif[h].pc = "findResponse" /\ ~(Matches(h) /\ Item(h).current))
                    => notif'[h].pc # "saveResponse" /\ responses' = responses
             /\ notif'[h].pc = "saveResponse"
                    => /\ notif'[h].resp.dirty = {"lastSyncedAt"}
                       /\ notif'[h].resp.lastSyncedAt = now
             /\ notif[h].pc = "saveResponse"
                    => LET rec == Item(h).rec
                       IN  /\ DOMAIN responses' = DOMAIN responses
                           /\ \A k \in DOMAIN responses \ {rec} : responses'[k] = responses[k]
                           /\ responses'[rec].answers = responses[rec].answers
                           /\ responses'[rec].deletedInAirtable = responses[rec].deletedInAirtable
                           /\ responses'[rec].formId = responses[rec].formId
                           /\ responses'[rec].lastSyncedAt
                                \in {responses[rec].lastSyncedAt, notif[h].resp.lastSyncedAt}]_vars

\* a response has been stamped by a changed-record entry (it is synced and not
\* deleted) and the handler has answered
C32_Witness ==
    \E h \in HandlerIds, rec \in DOMAIN responses :
        /\ responses[rec].lastSyncedAt >= StartNow
        /\ ~responses[rec].deletedInAirtable
        /\ notif[h].pc = "done" /\ notif[h].status = 200

\* C33: a response is modified only by the save of a handler that is at an
\* entry naming that record as changed or destroyed, among the entries of the
\* table of the handler's subscription, and only when the response belongs to
\* the form of that subscription.
C33_OnlyListedOfOwnForm ==
    [][\A k \in DOMAIN responses :
          (k \notin DOMAIN responses' \/ responses'[k] # responses[k]) =>
             \E h \in HandlerIds :
                /\ notif[h].pc = "saveResponse" /\ notif'[h] # notif[h]
                /\ Item(h).rec = k /\ Item(h).op \in {"changed", "destroyed"}
                /\ notif[h].hook \in DOMAIN webhooks
                /\ responses[k].formId = webhooks[notif[h].hook].formId
                /\ notif[h].doc.airtableTableId = webhooks[notif[h].hook].airtableTableId]_vars

\* a handler has passed an entry naming the record of another form, which is
\* as it was, while the record of the subscription's form has been modified
C33_Witness ==
    \E h \in HandlerIds :
        /\ notif[h].pc \in {"findResponse", "saveResponse"} /\ notif[h].i = 2
        /\ notif[h].items[1].rec = 2 /\ responses[2] = ResponseDoc(2)
        /\ responses[1] # ResponseDoc(1)

\* C40: no step removes a stored response, and no step sets the deleted flag
\* of a response back to false.
C40_NeverRemovedNorUndeleted ==
    [][\A k \in DOMAIN responses :
          /\ k \in DOMAIN responses'
          /\ responses[k].deletedInAirtable => responses'[k].deletedInAirtable]_vars

\* a handler has saved a changed-record entry for a response that was already
\* marked deleted, and the response is still marked deleted
C40_Witness ==
    \E h \in HandlerIds, k \in DOMAIN responses :
        /\ notif[h].pc = "done" /\ notif[h].afterDelete
        /\ responses[k].deletedInAirtable

\* ----------------------------------------- more claims about the pipeline
\* the first position of a set of positions
First(positions) == CHOOSE i \in positions : \A j \in positions : i <= j

\* C34: a submission rejected for a missing required field names the first, in
\* the order of the form, of the visible required questions without an answer,
\* and the questions the loop has visited end with that question.
C34_FirstMissingReported ==
    \A r \in SubmitIds :
        LET rq == submit[r]
            questions == rq.form.questions
            off == Offenders(questions, rq.body.answers)
        IN  (rq.pc = "done" /\ rq.reason = "required field missing") =>
              /\ off # {}
              /\ rq.field = questions[First(off)].questionKey
              /\ Len(rq.visible) >= 1 /\ rq.visible[Len(rq.visible)] = rq.field
              /\ \A k \in DOMAIN rq.visible :
                    \E i \in 1..First(off) : rq.visible[k] = questions[i].questionKey

\* two visible required questions lack an answer and the first is reported
C34_Witness ==
    \E r \in SubmitIds :
        LET rq == submit[r]
        IN  /\ rq.pc = "done" /\ rq.reason = "required field missing"
            /\ Offenders(rq.form.questions, rq.body.answers) = {1, 2}
            /\ rq.field = "k1"

\* the validation loop of a request has run
Validated(rq) ==
    \/ rq.pc \in {"createRecord", "saveResponse", "saveForm"}
    \/ rq.pc = "done" /\ rq.status \in {400, 201}

\* the positions the validation loop of a request has visited
Visited(rq) ==
    IF rq.pc = "done" /\ rq.reason = "required field missing"
    THEN 1..First({i \in DOMAIN rq.form.questions :
                      rq.form.questions[i].questionKey = rq.field})
    ELSE DOMAIN rq.form.questions

\* the supplied answers of the questions before position i that the loop found
\* visible
EarlierVisible(rq, i) ==
    LET keys == {rq.form.questions[j].questionKey : j \in 1..(i - 1)}
                  \cap Range(rq.visible)
                  \cap {k \in DOMAIN rq.body.answers : rq.body.answers[k] # Undefined}
    IN  [k \in keys |-> rq.body.answers[k]]

\* C35: the validation loop finds the question at position i visible exactly
\* when its rules hold on the supplied answers of the questions before i that
\* the loop found visible; no other answer takes part.
C35_VisibilityFromEarlierVisible ==
    \A r \in SubmitIds :
        LET rq == submit[r]
        IN  Validated(rq) =>
              \A i \in Visited(rq) :
                  (rq.form.questions[i].questionKey \in Range(rq.visible))
                    <=> shouldShowQuestion(rq.form.questions[i].conditionalRules,
                                           EarlierVisible(rq, i))

\* the second question is visible by an answer to the first, the first is
\* hidden by a rule on the second, and both have a supplied answer
C35_Witness ==
    \E r \in SubmitIds :
        LET rq == submit[r]
        IN  /\ Validated(rq) /\ rq.visible = <<"k2">>
            /\ rq.form.questions[1].conditionalRules.defined
            /\ rq.form.questions[2].conditionalRules.defined
            /\ DOMAIN rq.body.answers = {"k1", "k2"}

\* the answers of a request that were supplied
Supplied(answers) ==
    [k \in {x \in DOMAIN answers : answers[x] # Undefined} |-> answers[k]]

\* C36: when the validation loop has visited every question, the questions it
\* found visible are those getVisibleQuestions returns for the form's questions
\* and the whole of the submitted answers.
C36_PipelineAgreesWithGetVisible ==
    \A r \in SubmitIds :
        LET rq == submit[r]
        IN  (Validated(rq) /\ rq.reason # "required field missing") =>
              Range(rq.visible)
                = Range(getVisibleQuestions(rq.form.questions, Supplied(rq.body.answers)))

\* ------------------------------------ more claims about shouldShowQuestion
\* C37: a call of shouldShowQuestion on rules with conditions returns true when
\* the logic is neither AND nor OR, whatever the conditions evaluate to, and
\* every condition whose operator is none of equals, notEquals and contains
\* evaluates to false; the call returns in both cases.
C37_UnknownLogicShowsUnknownOperatorFails ==
    (probe # <<>> /\ probe.fn = "shouldShowQuestion" /\ ~HasNoConditions(probe.rules)) =>
        /\ Evaluated =>
              /\ probe.rules.logic \notin ValidLogic => probe.result
              /\ \A k \in DOMAIN probe.rules.conditions :
                    CondAt(k).operator \notin ValidOperators => ~probe.results[k]
        /\ probe.pc = "called" => ENABLED CallShouldShowQuestion

\* rules with an unknown logic showed the question although their only
\* condition, of an unknown operator on an answer equal to its value, was false
C37_Witness ==
    /\ Evaluated
    /\ probe.rules.logic = "XOR" /\ probe.result
    /\ Len(probe.rules.conditions) = 1
    /\ CondAt(1).operator = "matches" /\ ~probe.results[1]
    /\ AnswerAt(1) = CondAt(1).value

\* C38: a response is stored only by a request whose createRecord call has
\* returned, under the id that call returned; a request that ends at its
\* validation or at a rejected createRecord leaves the responses and the form
\* as they were; a request rejected with 400 has made no createRecord call;
\* and the form's submission count changes only after the response is stored.
C38_RecordAfterExternalCreation ==
    [][/\ \A k \in DOMAIN responses' \ DOMAIN responses :
            \E r \in SubmitIds :
               /\ submit[r].pc = "saveResponse" /\ submit[r].record = k
               /\ k \in 1..created
               /\ responses'[k].formId = FormId
       /\ \A r \in SubmitIds :
            (submit[r].pc \in {"findOwner", "createRecord"} /\ submit'[r].pc = "done")
               => /\ responses' = responses /\ formDocs' = formDocs
                  /\ created' = created /\ submit'[r].record = 0
       /\ \A r \in SubmitIds :
            (submit[r].pc # "done" /\ submit'[r].pc = "done" /\ submit'[r].status = 400)
               => submit[r].pc = "findOwner"
       /\ created' # created =>
            \E r \in SubmitIds : submit[r].pc = "createRecord" /\ submit'[r].record = created'
       /\ formDocs' # formDocs =>
            \E r \in SubmitIds :
               submit[r].pc = "saveForm" /\ submit[r].record \in DOMAIN responses]_vars

\* a submission has been answered 201: its response is stored under the id
\* createRecord returned and the form counts it
C38_Witness ==
    \E r \in SubmitIds :
        /\ submit[r].pc = "done" /\ submit[r].status = 201
        /\ submit[r].record >= 1 /\ submit[r].record \in DOMAIN responses
        /\ formDocs[FormId].submissionCount = 1

\* ------------------------------------------------ DELETE /:formId (forms.js)
\* lines 238-248: await Form.findById, then the ownership check
DeleteFind(e) ==
    /\ edit[e].pc = "idle"
    /\ \A k \in EditIds : k < e => edit[k].pc # "idle"
    /\ \E userId \in {OwnerId, OtherUser}, formId \in forms \cup {NoForm} :
          edit' = [edit EXCEPT ![e] =
              LET rq == [@ EXCEPT !.route = "delete", !.userId = userId]
              IN  IF formId \notin forms THEN EditRespond(rq, 404)
                  ELSE IF userId # OwnerId THEN EditRespond(rq, 403)
                  ELSE [rq EXCEPT !.pc = "deleteMany", !.formId = formId]]
    /\ UNCHANGED <<forms, formDocs, webhooks, responses, notif>>
    /\ UNCHANGED <<now, users, probe, submit, created, cronVars, regVars, authVars>>

\* line 251: await Response.deleteMany({ formId: form._id })
DeleteResponses(e) ==
    /\ edit[e].pc = "deleteMany" /\ edit[e].route = "delete"
    /\ \/ /\ responses' = [k \in {x \in DOMAIN responses :
                                     responses[x].formId # edit[e].formId} |-> responses[k]]
          /\ edit' = [edit EXCEPT ![e].pc = "deleteOne"]
       \/ /\ edit' = [edit EXCEPT ![e] = EditRespond(@, 500)]
          /\ UNCHANGED responses
    /\ UNCHANGED <<forms, formDocs, webhooks, notif>>
    /\ UNCHANGED <<now, users, probe, submit, created, cronVars, regVars, authVars>>

\* lines 252-259: await form.deleteOne(); the webhooks of the form are left as
\* they are (line 254)
DeleteForm(e) ==
    /\ edit[e].pc = "deleteOne" /\ edit[e].route = "delete"
    /\ \/ /\ forms' = forms \ {edit[e].formId}
          /\ edit' = [edit EXCEPT ![e] = EditRespond(@, 200)]
       \/ /\ edit' = [edit EXCEPT ![e] = EditRespond(@, 500)]
          /\ UNCHANGED forms
    /\ UNCHANGED <<formDocs, webhooks, responses, notif>>
    /\ UNCHANGED <<now, users, probe, submit, created, cronVars, regVars, authVars>>

\* ------------------------------------------------------- recurring sweeps
\* a date one day further in the past; dates are kept from day 0 on, before
\* which every date is older than the renewal threshold
Age(d) == IF d > 0 THEN d - 1 ELSE d

\* a day passes once the clock of the model is at its bound: the clock stays
\* and every stored date moves one day into the past
DayPasses ==
    /\ now = MaxNow
    /\ \A s \in SweepIds : ~Running(s)
    /\ lastTick' = Age(lastTick)
    /\ webhooks' = [w \in DOMAIN webhooks |->
                       [webhooks[w] EXCEPT !.lastPingAt = Age(@)]]
    /\ UNCHANGED <<now, forms, users, sweep, streak, regVars, hookVars, authVars, formVars>>

\* the callback's query is answered
CronSelects(s) == CronFire(s) /\ sweep'[s].outcome # "findFailed"
\* the save of the catch block is written
ErrorSaved(s) == SweepSaveError(s) /\ sweep'[s].outcome # "aborted"

\* One form has a subscription registered 7 days ago, with no error or with two
\* recorded errors; the schedule fires day after day, and the form may be deleted
InitRecurring ==
    /\ now = StartNow
    /\ forms = {1}
    /\ users = {OwnerId}
    /\ webhooks \in [{HookId} -> {WebhookDoc(1, StartNow - 7, TRUE, e) : e \in {0, MaxErrors - 1}}]
    /\ sweep = [s \in SweepIds |-> IdleSweep]
    /\ lastTick = StartNow - 1
    /\ streak = [w \in DOMAIN webhooks |-> webhooks[w].errorCount]
    /\ RegIdle /\ AuthIdle
    /\ notif = <<>>
    /\ responses = [k \in {1} |-> ResponseDoc(1)]
    /\ probe = <<>> /\ submit = <<>> /\ formDocs = <<>> /\ created = 0
    /\ edit = [e \in EditIds |-> IdleEdit]

Recurring ==
    \/ Tick
    \/ DayPasses
    \/ \E s \in SweepIds : CronFire(s)
    \/ \E s \in SweepIds : SweepLoadOwner(s)
    \/ \E s \in SweepIds : SweepRenew(s)
    \/ \E s \in SweepIds : SweepSave(s)
    \/ \E s \in SweepIds : SweepSaveError(s)
    \/ \E e \in EditIds : DeleteFind(e)
    \/ \E e \in EditIds : DeleteResponses(e)
    \/ \E e \in EditIds : DeleteForm(e)

\* days pass and the schedule fires; every awaited call settles; the
\* database does not reject the sweep's query or the catch block's save for ever
RecurringFairness ==
    /\ WF_vars(Tick) /\ WF_vars(DayPasses)
    /\ \A s \in SweepIds :
          /\ WF_vars(SweepLoadOwner(s)) /\ WF_vars(SweepRenew(s))
          /\ WF_vars(SweepSave(s)) /\ WF_vars(SweepSaveError(s))
          /\ SF_vars(CronSelects(s)) /\ SF_vars(ErrorSaved(s))
    /\ \A e \in EditIds : WF_vars(DeleteResponses(e)) /\ WF_vars(DeleteForm(e))

SpecRecurring == InitRecurring /\ [][Recurring]_vars /\ RecurringFairness

\* C39: an active subscription whose lastPingAt is older than the renewal
\* threshold is eventually renewed or retired, whether or not its form and its
\* owner still exist.
C39_EventuallyRenewedOrRetired ==
    \A w \in {HookId} :
        (webhooks[w].isActive /\ needsRefresh(webhooks[w], now))
            ~> (~webhooks[w].isActive \/ ~needsRefresh(webhooks[w], now))

=============================================================================
